---------------------------- MODULE Spec2Model ----------------------------
(***************************************************************************)
(* A model of the seastar metrics registry (src/core/metrics.cc and        *)
(* seastar/core/metrics_api.hh): metric identities, the relabel engine,    *)
(* registration and removal, set_relabel_configs, the replication of       *)
(* metric families to other registries, and the scoped registration        *)
(* handles (metric_groups_impl).                                           *)
(*                                                                         *)
(* Strings (sstring, std::string) are sequences of one-character strings,  *)
(* so that safe_name, the concatenation of source labels, regex_search and *)
(* the ordering of std::map keys are computed character by character.      *)
(***************************************************************************)
EXTENDS Integers, Sequences, FiniteSets, TLC

VARIABLES
    impls,      \* get_metric_implementations(): handle -> impl
    groups,     \* the metric_groups_impl objects of the instrumented code
    crashed,    \* the process overflowed its stack (unbounded recursion)
    last,       \* the last operation executed, its arguments and its outcome
    steps,      \* the number of operations executed so far
    heap,       \* the metric_metadata objects: address -> contents
    exporter    \* what the exporter holds of the snapshots it was returned

vars == <<impls, groups, crashed, last, steps, heap, exporter>>

-----------------------------------------------------------------------------
(* sstring: comparison and the characters of the strings the model uses.   *)

\* F applied to v: names a value that is computed once and used several times.
With(v, F(_)) == F(v)

\* The codes of the characters that occur in the model's strings
\* (char_traits<char>::lt compares these).
CharCode ==
    (" " :> 32) @@ ("$" :> 36) @@ ("&" :> 38) @@ ("(" :> 40) @@ (")" :> 41) @@
    ("+" :> 43) @@ ("-" :> 45) @@ ("0" :> 48) @@ ("1" :> 49) @@ ("2" :> 50) @@
    ("3" :> 51) @@ ("4" :> 52) @@ ("5" :> 53) @@ ("6" :> 54) @@ ("7" :> 55) @@
    ("8" :> 56) @@ ("9" :> 57) @@ (";" :> 59) @@ ("_" :> 95) @@ ("a" :> 97) @@
    ("b" :> 98) @@ ("c" :> 99) @@ ("d" :> 100) @@ ("e" :> 101) @@ ("f" :> 102) @@
    ("g" :> 103) @@ ("h" :> 104) @@ ("i" :> 105) @@ ("j" :> 106) @@ ("k" :> 107) @@
    ("l" :> 108) @@ ("m" :> 109) @@ ("n" :> 110) @@ ("o" :> 111) @@ ("p" :> 112) @@
    ("q" :> 113) @@ ("r" :> 114) @@ ("s" :> 115) @@ ("t" :> 116) @@ ("u" :> 117) @@
    ("v" :> 118) @@ ("w" :> 119) @@ ("x" :> 120) @@ ("y" :> 121) @@ ("z" :> 122)

\* sstring operator< : lexicographic on the characters.
RECURSIVE StrLess(_, _)
StrLess(a, b) ==
    IF b = <<>> THEN FALSE
    ELSE IF a = <<>> THEN TRUE
    ELSE IF Head(a) = Head(b) THEN StrLess(Tail(a), Tail(b))
    ELSE CharCode[Head(a)] < CharCode[Head(b)]

\* Whether p occurs in s starting at position i.
OccursAt(s, p, i) ==
    /\ i + Len(p) - 1 <= Len(s)
    /\ \A k \in 1..Len(p) : s[i + k - 1] = p[k]

-----------------------------------------------------------------------------
(* labels_type = std::map<sstring, sstring>: a function from the label     *)
(* names present to their values.  The map's iteration order and the       *)
(* order of label sets used as keys of metric_instances follow.            *)

NoLabels == [k \in {} |-> <<>>]

\* std::map::find(l) != end()
HasLabel(labels, l) == l \in DOMAIN labels

\* labels[l] = v
SetLabel(labels, l, v) ==
    [k \in (DOMAIN labels) \cup {l} |-> IF k = l THEN v ELSE labels[k]]

\* labels.erase(l)
EraseLabel(labels, l) == [k \in (DOMAIN labels) \ {l} |-> labels[k]]

\* The least string of a non-empty set.
MinStr(S) == CHOOSE x \in S : \A y \in S \ {x} : StrLess(x, y)

\* The entries of a label map in the map's iteration order (by key).
RECURSIVE LabelPairs(_)
LabelPairs(labels) ==
    IF DOMAIN labels = {} THEN <<>>
    ELSE With(MinStr(DOMAIN labels),
              LAMBDA k : <<(<<k, labels[k]>>)>> \o LabelPairs(EraseLabel(labels, k)))

\* std::pair operator<
PairLess(p, q) ==
    IF p[1] = q[1] THEN StrLess(p[2], q[2]) ELSE StrLess(p[1], q[1])

\* std::lexicographical_compare over the entries: the first entries that
\* differ decide (of two different entries exactly one is less).
RECURSIVE PairsLess(_, _)
PairsLess(a, b) ==
    IF b = <<>> THEN FALSE
    ELSE IF a = <<>> THEN TRUE
    ELSE IF Head(a) = Head(b) THEN PairsLess(Tail(a), Tail(b))
    ELSE PairLess(Head(a), Head(b))

\* std::map operator< on labels_type, the order of metric_instances' keys.
LabelsLess(a, b) == PairsLess(LabelPairs(a), LabelPairs(b))

\* The first key of a non-empty set of label sets in map order.
MinLabels(S) == CHOOSE x \in S : \A y \in S \ {x} : LabelsLess(x, y)

-----------------------------------------------------------------------------
(* metric_id and its full name.                                            *)

metric_id(group, name, labels) ==
    [group |-> group, name |-> name, labels |-> labels]

\* boost::replace_all_copy(s, from, to) for one-character from and to
RECURSIVE replace_all_copy(_, _, _)
replace_all_copy(s, from, to) ==
    IF s = <<>> THEN <<>>
    ELSE <<(IF Head(s) = from THEN to ELSE Head(s))>>
             \o replace_all_copy(Tail(s), from, to)

\* boost::remove_erase_if(s, boost::is_any_of(chars))
RECURSIVE remove_erase_if(_, _)
remove_erase_if(s, chars) ==
    IF s = <<>> THEN <<>>
    ELSE IF Head(s) \in chars THEN remove_erase_if(Tail(s), chars)
    ELSE <<Head(s)>> \o remove_erase_if(Tail(s), chars)

\* safe_name that leaves the spaces in place.
safe_name_KeepsSpaces(name) ==
    remove_erase_if(replace_all_copy(name, "-", "_"), {"+", "(", ")"})

safe_name(name) ==
    remove_erase_if(
        replace_all_copy(replace_all_copy(name, "-", "_"), " ", "_"),
        {"+", "(", ")"})

full_name(id) == safe_name(id.group \o <<"_">> \o id.name)

-----------------------------------------------------------------------------
(* relabel_config and the relabel engine.  The model's rules use regular   *)
(* expressions without metacharacters, so std::regex_search is a substring *)
(* search and the match is the expression itself; in a replacement the     *)
(* only reference is $& (the whole match).                                 *)

NameLabel == <<"_","_","n","a","m","e","_","_">>

relabel_config(source_labels, separator, expr, action, target_label, replacement) ==
    [source_labels |-> source_labels, separator |-> separator, expr |-> expr,
     action |-> action, target_label |-> target_label,
     replacement |-> replacement]

\* std::regex_search(s, match, expr): found, and where the first match is.
regex_search(s, expr) == \E i \in 1..(Len(s) + 1) : OccursAt(s, expr, i)

\* match.format(fmt): $& expands to the matched text m0.
RECURSIVE match_format(_, _)
match_format(fmt, m0) ==
    IF fmt = <<>> THEN <<>>
    ELSE IF Len(fmt) >= 2 /\ fmt[1] = "$" /\ fmt[2] = "&"
    THEN m0 \o match_format(SubSeq(fmt, 3, Len(fmt)), m0)
    ELSE <<Head(fmt)>> \o match_format(Tail(fmt), m0)

\* The loop over rc.source_labels that takes a source label the metric does
\* not have for an empty value instead of returning.
RECURSIVE SourceString_MissingAsEmpty(_, _, _, _)
SourceString_MissingAsEmpty(rc, info, i, s) ==
    IF i > Len(rc.source_labels) THEN [found |-> TRUE, s |-> s]
    ELSE LET l == rc.source_labels[i]
         IN  SourceString_MissingAsEmpty(rc, info, i + 1,
                s \o (IF i = 1 THEN <<>> ELSE rc.separator)
                  \o (IF l = NameLabel THEN full_name(info.id)
                      ELSE IF HasLabel(info.id.labels, l) THEN info.id.labels[l]
                      ELSE <<>>))

\* The loop over rc.source_labels: [found |-> every label was found,
\* s |-> the values joined by the separator].
RECURSIVE SourceString(_, _, _, _)
SourceString(rc, info, i, s) ==
    IF i > Len(rc.source_labels) THEN [found |-> TRUE, s |-> s]
    ELSE LET l == rc.source_labels[i]
         IN  IF l # NameLabel /\ ~HasLabel(info.id.labels, l)
             THEN [found |-> FALSE, s |-> s]
             ELSE SourceString(rc, info, i + 1,
                     s \o (IF i = 1 THEN <<>> ELSE rc.separator)
                       \o (IF l = NameLabel THEN full_name(info.id)
                                            ELSE info.id.labels[l]))

\* apply_relabeling(rc, info): [changed |-> the returned bool, info |-> info
\* as the call leaves it].
apply_relabeling(rc, info) ==
    With(SourceString(rc, info, 1, <<>>),
         LAMBDA src :
            IF ~src.found THEN [changed |-> FALSE, info |-> info]
            ELSE IF ~regex_search(src.s, rc.expr)
            THEN [changed |-> FALSE, info |-> info]
            ELSE CASE rc.action \in {"drop", "keep"} ->
                        [changed |-> TRUE,
                         info |-> [info EXCEPT !.enabled = (rc.action = "keep")]]
                   [] rc.action \in {"report_when_empty", "skip_when_empty"} ->
                        [changed |-> FALSE,
                         info |-> [info EXCEPT !.should_skip_when_empty =
                                     IF rc.action = "skip_when_empty"
                                     THEN "yes" ELSE "no"]]
                   [] rc.action = "drop_label" ->
                        [changed |-> TRUE,
                         info |-> IF HasLabel(info.id.labels, rc.target_label)
                                  THEN [info EXCEPT !.id.labels =
                                          EraseLabel(@, rc.target_label)]
                                  ELSE info]
                   [] rc.action = "replace" ->
                        [changed |-> TRUE,
                         info |-> IF rc.target_label # <<>>
                                  THEN [info EXCEPT !.id.labels =
                                          SetLabel(@, rc.target_label,
                                                   match_format(rc.replacement,
                                                                rc.expr))]
                                  ELSE info])

\* The loop over the rules taken from the last rule to the first.
RECURSIVE ApplyRules_Reversed(_, _, _, _)
ApplyRules_Reversed(configs, info, i, changed) ==
    IF i > Len(configs) THEN [changed |-> changed, info |-> info]
    ELSE With(apply_relabeling(configs[Len(configs) + 1 - i], info),
              LAMBDA r : ApplyRules_Reversed(configs, r.info, i + 1,
                                             changed \/ r.changed))

\* for (auto&& rl : configs) apply_relabeling(rl, info): the info after the
\* rules from position i on, and whether any of them returned true.
RECURSIVE ApplyRules(_, _, _, _)
ApplyRules(configs, info, i, changed) ==
    IF i > Len(configs) THEN [changed |-> changed, info |-> info]
    ELSE With(apply_relabeling(configs[i], info),
              LAMBDA r : ApplyRules(configs, r.info, i + 1, changed \/ r.changed))

-----------------------------------------------------------------------------
(* The registries.  An impl holds _value_map (full name -> metric_family), *)
(* _dirty, _relabel_configs and _metric_families_to_replicate; the         *)
(* unordered_multimap is kept as the sequence of its (name, handle)        *)
(* entries in iteration order.  A registered_metric carries, besides the   *)
(* fields of the class, two history fields that no operation reads:        *)
(*   uid   the identity of the object (the shared_ptr's target),           *)
(*   reg   the add_registration that made it: src (the registry whose      *)
(*         replicate_metric issued the call and the uid of the metric it   *)
(*         replicated, or NoSource when instrumented code issued it) and   *)
(*         the arguments base_type, enabled and skip.                      *)

Handles == {0, 1}

default_handle == 0

NoSource == [handle |-> 0 - 1, uid |-> 0]

EmptyImpl ==
    [value_map |-> [n \in {} |-> <<>>],
     dirty |-> TRUE,
     metadata |-> 0,
     current_metrics |-> <<>>,
     relabel_configs |-> <<>>,
     metric_families_to_replicate |-> <<>>]

\* Every registered_metric of every registry.
AllMetrics(im) ==
    UNION {UNION {{im[h].value_map[n].instances[k] :
                     k \in DOMAIN im[h].value_map[n].instances} :
                  n \in DOMAIN im[h].value_map} : h \in DOMAIN im}

\* The identity of a newly made registered_metric: the least number that
\* names no live object and none that a scoped handle still refers to.
NewUid(w) ==
    LET used == {m.uid : m \in AllMetrics(w.impls)} \cup w.reserved
    IN  CHOOSE n \in 1..(Cardinality(used) + 1) :
            /\ n \notin used
            /\ \A k \in 1..(n - 1) : k \in used

\* registered_metric::registered_metric
registered_metric(id, f, enabled, skip, handle) ==
    [info |-> [id |-> id, original_labels |-> id.labels,
               enabled |-> enabled, should_skip_when_empty |-> skip],
     f |-> f, impl |-> handle]

\* impl::dirty()
dirty(w, h) == [w EXCEPT !.impls[h].dirty = TRUE]

\* The keys of a metric_family in the map's iteration order.
RECURSIVE KeysInOrder(_)
KeysInOrder(S) ==
    IF S = {} THEN <<>>
    ELSE With(MinLabels(S), LAMBDA k : <<k>> \o KeysInOrder(S \ {k}))

\* The names of _value_map in the map's iteration order.
RECURSIVE NamesInOrder(_)
NamesInOrder(S) ==
    IF S = {} THEN <<>>
    ELSE With(MinStr(S), LAMBDA n : <<n>> \o NamesInOrder(S \ {n}))

\* metric_instances with the entry for key erased / set.
EraseKey(instances, key) ==
    [k \in (DOMAIN instances) \ {key} |-> instances[k]]

PutKey(instances, key, rm) ==
    [k \in (DOMAIN instances) \cup {key} |-> IF k = key THEN rm ELSE instances[k]]

\* _value_map with family name erased / set.
EraseFamily(value_map, name) ==
    [n \in (DOMAIN value_map) \ {name} |-> value_map[n]]

PutFamily(value_map, name, family) ==
    [n \in (DOMAIN value_map) \cup {name} |-> IF n = name THEN family ELSE value_map[n]]

\* _metric_families_to_replicate.equal_range(name): the destinations, in order.
RECURSIVE equal_range(_, _)
equal_range(mapping, name) ==
    IF mapping = <<>> THEN <<>>
    ELSE (IF Head(mapping)[1] = name THEN <<Head(mapping)[2]>> ELSE <<>>)
            \o equal_range(Tail(mapping), name)

Ok(w) == [w |-> w, err |-> "none"]
Throw(w, e) == [w |-> w, err |-> e]

\* r; K: the statements K run in the world r leaves, unless r threw.
Then(r, K(_)) == IF r.err # "none" THEN r ELSE K(r.w)

-----------------------------------------------------------------------------
(* Registration and its mirroring.  Every operation maps the world w       *)
(* ([impls, reserved]) to [w |-> the world as the call leaves it, err |->  *)
(* "none" or the exception that left the call]: what a call changed before *)
(* it threw stays changed.                                                 *)

RECURSIVE add_registration(_, _, _, _, _, _, _, _, _, _)
RECURSIVE replicate_metric_if_required(_, _, _, _, _)

\* replicate_metric handing over the identity the metric was registered
\* with instead of metric->get_id().
replicate_metric_OriginalId(w, h, metric, family, destination_handle) ==
    add_registration(w, destination_handle,
                     [metric.info.id EXCEPT !.labels = metric.info.original_labels],
                     [base_type |-> family.info.type,
                      type_name |-> family.info.inherit_type],
                     metric.f, family.info.d, metric.info.enabled,
                     metric.info.should_skip_when_empty,
                     family.info.aggregate_labels,
                     [handle |-> h, uid |-> metric.uid])

\* impl::replicate_metric of this registry's metric to the destination.
replicate_metric(w, h, metric, family, destination_handle) ==
    add_registration(w, destination_handle, metric.info.id,
                     [base_type |-> family.info.type,
                      type_name |-> family.info.inherit_type],
                     metric.f, family.info.d, metric.info.enabled,
                     metric.info.should_skip_when_empty,
                     family.info.aggregate_labels,
                     [handle |-> h, uid |-> metric.uid])

\* impl::replicate_metric_if_required: dests is what is left of the
\* equal_range of the metric's full name.
replicate_metric_if_required(w, h, metric, name, dests) ==
    IF dests = <<>> THEN Ok(w)
    ELSE IF name \notin DOMAIN w.impls[h].value_map
    THEN Throw(w, "out_of_range")                       \* _value_map.at(name)
    ELSE Then(replicate_metric(w, h, metric, w.impls[h].value_map[name],
                               Head(dests)),
              LAMBDA w1 :
                replicate_metric_if_required(w1, h, metric, name, Tail(dests)))

\* The registered_metric as constructed, with no rule applied to it.
RelabelledMetric_NoRules(w, id, type, f, enabled, skip, handle, src) ==
    registered_metric(id, f, enabled, skip, handle) @@
    [uid |-> NewUid(w),
     reg |-> [src |-> src, base_type |-> type.base_type,
              enabled |-> enabled, skip |-> skip]]

\* registered_metric with its info relabelled by the registry's rules
\* (apply_relabeling over _relabel_configs) and the history fields.
RelabelledMetric(w, id, type, f, enabled, skip, handle, src) ==
    With(registered_metric(id, f, enabled, skip, handle),
         LAMBDA rm0 :
            [rm0 EXCEPT !.info = ApplyRules(w.impls[handle].relabel_configs,
                                            rm0.info, 1, FALSE).info] @@
            [uid |-> NewUid(w),
             reg |-> [src |-> src, base_type |-> type.base_type,
                      enabled |-> enabled, skip |-> skip]])

\* A new metric_family holding rm.
NewFamily(name, type, d, aggregate_labels, rm) ==
    [info |-> [type |-> type.base_type, d |-> d,
               inherit_type |-> type.type_name, name |-> name,
               aggregate_labels |-> aggregate_labels],
     instances |-> PutKey([k \in {} |-> <<>>], rm.info.id.labels, rm)]

\* add_registration without the check for a registered label set: the new
\* metric takes the place of the member.
InsertMetric_NoDuplicateCheck(w, name, type, d, aggregate_labels, handle, rm) ==
    IF name \in DOMAIN w.impls[handle].value_map
    THEN IF w.impls[handle].value_map[name].info.type # type.base_type
         THEN [w |-> w, err |-> "runtime_error", rm |-> rm]
         ELSE [w |-> [w EXCEPT !.impls[handle].value_map[name].instances =
                                  PutKey(@, rm.info.id.labels, rm)],
               err |-> "none", rm |-> rm]
    ELSE [w |-> [w EXCEPT !.impls[handle].value_map =
                    PutFamily(@, name,
                              NewFamily(name, type, d, aggregate_labels, rm))],
          err |-> "none", rm |-> rm]

\* add_registration without the check of the family's type.
InsertMetric_NoTypeCheck(w, name, type, d, aggregate_labels, handle, rm) ==
    IF name \in DOMAIN w.impls[handle].value_map
    THEN IF rm.info.id.labels \in DOMAIN w.impls[handle].value_map[name].instances
         THEN [w |-> w, err |-> "double_registration", rm |-> rm]
         ELSE [w |-> [w EXCEPT !.impls[handle].value_map[name].instances =
                                  PutKey(@, rm.info.id.labels, rm)],
               err |-> "none", rm |-> rm]
    ELSE [w |-> [w EXCEPT !.impls[handle].value_map =
                    PutFamily(@, name,
                              NewFamily(name, type, d, aggregate_labels, rm))],
          err |-> "none", rm |-> rm]

\* The body of impl::add_registration up to dirty(): the relabelled metric
\* rm is inserted under name, or the call throws.
InsertMetric(w, name, type, d, aggregate_labels, handle, rm) ==
    IF name \in DOMAIN w.impls[handle].value_map
    THEN IF rm.info.id.labels \in DOMAIN w.impls[handle].value_map[name].instances
         THEN [w |-> w, err |-> "double_registration", rm |-> rm]
         ELSE IF w.impls[handle].value_map[name].info.type # type.base_type
         THEN [w |-> w, err |-> "runtime_error", rm |-> rm]
         ELSE [w |-> [w EXCEPT !.impls[handle].value_map[name].instances =
                                  PutKey(@, rm.info.id.labels, rm)],
               err |-> "none", rm |-> rm]
    ELSE [w |-> [w EXCEPT !.impls[handle].value_map =
                    PutFamily(@, name,
                              NewFamily(name, type, d, aggregate_labels, rm))],
          err |-> "none", rm |-> rm]

InsertRegistration(w, id, type, f, d, enabled, skip, aggregate_labels, handle, src) ==
    InsertMetric(w, full_name(id), type, d, aggregate_labels, handle,
                 RelabelledMetric(w, id, type, f, enabled, skip, handle, src))

\* impl::add_registration
add_registration(w, handle, id, type, f, d, enabled, skip, aggregate_labels, src) ==
    With(InsertRegistration(w, id, type, f, d, enabled, skip,
                            aggregate_labels, handle, src),
         LAMBDA r :
            IF r.err # "none" THEN Throw(r.w, r.err)
            ELSE With(full_name(r.rm.info.id),
                      LAMBDA name :
                        replicate_metric_if_required(
                            dirty(r.w, handle), handle, r.rm, name,
                            equal_range(w.impls[handle].metric_families_to_replicate,
                                        name))))

-----------------------------------------------------------------------------
(* Removal and its mirroring.  remove_registration first recurses into     *)
(* every destination of the identity's family, before it changes anything: *)
(* along a cycle of mappings the recursion never returns.  A chain of      *)
(* destinations longer than the number of registries has entered a cycle,  *)
(* which is reported as "stack_overflow".                                  *)

MaxDepth == Cardinality(Handles) + 1

RECURSIVE remove_registration(_, _, _, _)
RECURSIVE remove_metric_replica_if_required(_, _, _, _)

\* impl::remove_metric_replica
remove_metric_replica(w, id, destination, depth) ==
    remove_registration(w, destination, id, depth)

\* impl::remove_metric_replica_if_required over what is left of the equal_range
remove_metric_replica_if_required(w, id, dests, depth) ==
    IF dests = <<>> THEN Ok(w)
    ELSE Then(remove_metric_replica(w, id, Head(dests), depth),
              LAMBDA w1 :
                remove_metric_replica_if_required(w1, id, Tail(dests), depth))

\* remove_registration that leaves a family without members in the map.
EraseMetric_KeepsFamily(w, h, name, labels) ==
    IF name \in DOMAIN w.impls[h].value_map
    THEN dirty([w EXCEPT !.impls[h].value_map[name].instances =
                   IF labels \in DOMAIN @ THEN EraseKey(@, labels) ELSE @], h)
    ELSE w

\* The body of impl::remove_registration after the replicas were handled.
EraseMetric(w, h, name, labels) ==
    IF name \in DOMAIN w.impls[h].value_map
    THEN With(IF labels \in DOMAIN w.impls[h].value_map[name].instances
              THEN EraseKey(w.impls[h].value_map[name].instances, labels)
              ELSE w.impls[h].value_map[name].instances,
              LAMBDA instances :
                dirty([w EXCEPT !.impls[h].value_map =
                         IF DOMAIN instances = {}
                         THEN EraseFamily(@, name)
                         ELSE [@ EXCEPT ![name].instances = instances]], h))
    ELSE w

EraseRegistration(w, h, id) == EraseMetric(w, h, full_name(id), id.labels)

\* impl::remove_registration
remove_registration(w, h, id, depth) ==
    IF depth > MaxDepth THEN Throw(w, "stack_overflow")
    ELSE Then(remove_metric_replica_if_required(
                  w, id,
                  equal_range(w.impls[h].metric_families_to_replicate,
                              full_name(id)),
                  depth + 1),
              LAMBDA w1 : Ok(EraseRegistration(w1, h, id)))

\* unregister_metric
unregister_metric(w, id, handle) == remove_registration(w, handle, id, 1)

-----------------------------------------------------------------------------
(* set_relabel_configs.  get_unique_id draws four numbers from             *)
(* std::random_device; the caller of the model's operator supplies the     *)
(* draws, one id per collision, in ids.                                    *)

\* std::to_string of a one-digit number
to_string(n) == <<(<<"0", "1", "2", "3", "4", "5", "6", "7", "8", "9">>)[n + 1]>>

\* get_unique_id() for the four draws rd
get_unique_id(rd) ==
    to_string(rd[1]) \o <<"-">> \o to_string(rd[2]) \o <<"-">>
        \o to_string(rd[3]) \o <<"-">> \o to_string(rd[4])

ErrLabel == <<"e","r","r">>

\* The first loop without the reset to the original labels: the rules are
\* applied to the labels the previous call left.
RECURSIVE RelabelFamily_NoReset(_, _, _, _, _)
RelabelFamily_NoReset(configs, instances, keys, rms, dirtied) ==
    IF keys = <<>>
    THEN [instances |-> instances, rms |-> rms, dirtied |-> dirtied]
    ELSE With(ApplyRules(configs, instances[Head(keys)].info, 1, FALSE),
              LAMBDA r :
                IF Head(keys) # r.info.id.labels
                THEN RelabelFamily_NoReset(
                         configs, EraseKey(instances, Head(keys)), Tail(keys),
                         Append(rms, [instances[Head(keys)] EXCEPT !.info = r.info]),
                         TRUE)
                ELSE RelabelFamily_NoReset(
                         configs, [instances EXCEPT ![Head(keys)].info = r.info],
                         Tail(keys), rms, dirtied \/ r.changed))

\* The first loop over a family: every metric is re-evaluated from its
\* original labels; the ones whose labels differ from their key are erased
\* and collected in rms.  keys is what is left of the iteration.
RECURSIVE RelabelFamily(_, _, _, _, _)
RelabelFamily(configs, instances, keys, rms, dirtied) ==
    IF keys = <<>>
    THEN [instances |-> instances, rms |-> rms, dirtied |-> dirtied]
    ELSE With(ApplyRules(configs,
                         [instances[Head(keys)].info EXCEPT
                             !.id.labels = instances[Head(keys)].info.original_labels],
                         1, FALSE),
              LAMBDA r :
                IF Head(keys) # r.info.id.labels
                THEN RelabelFamily(configs, EraseKey(instances, Head(keys)),
                                   Tail(keys),
                                   Append(rms, [instances[Head(keys)] EXCEPT
                                                   !.info = r.info]),
                                   TRUE)
                ELSE RelabelFamily(configs,
                                   [instances EXCEPT ![Head(keys)].info = r.info],
                                   Tail(keys), rms, dirtied \/ r.changed))

\* The second loop without the check for a taken label set: a collected
\* metric takes the place of the metric stored under its label set.
RECURSIVE PlaceBack_Overwrite(_, _, _, _)
PlaceBack_Overwrite(instances, rms, ids, conflicts) ==
    IF rms = <<>>
    THEN [instances |-> instances, ids |-> ids, conflicts |-> conflicts,
          starved |-> FALSE]
    ELSE PlaceBack_Overwrite(PutKey(instances, Head(rms).info.id.labels, Head(rms)),
                             Tail(rms), ids, conflicts)

\* The second loop that gives the err label without counting the collision.
RECURSIVE PlaceBack_NoCount(_, _, _, _)
PlaceBack_NoCount(instances, rms, ids, conflicts) ==
    IF rms = <<>>
    THEN [instances |-> instances, ids |-> ids, conflicts |-> conflicts,
          starved |-> FALSE]
    ELSE IF Head(rms).info.id.labels \in DOMAIN instances
    THEN IF ids = <<>>
         THEN [instances |-> instances, ids |-> ids,
               conflicts |-> conflicts, starved |-> TRUE]
         ELSE With(SetLabel(Head(rms).info.id.labels, ErrLabel,
                            get_unique_id(Head(ids))),
                   LAMBDA lb :
                     PlaceBack_NoCount(PutKey(instances, lb,
                                              [Head(rms) EXCEPT !.info.id.labels = lb]),
                                       Tail(rms), Tail(ids), conflicts))
    ELSE PlaceBack_NoCount(PutKey(instances, Head(rms).info.id.labels, Head(rms)),
                           Tail(rms), ids, conflicts)

\* The second loop that writes the err label into the original labels as
\* well.
RECURSIVE PlaceBack_ErrInOriginal(_, _, _, _)
PlaceBack_ErrInOriginal(instances, rms, ids, conflicts) ==
    IF rms = <<>>
    THEN [instances |-> instances, ids |-> ids, conflicts |-> conflicts,
          starved |-> FALSE]
    ELSE IF Head(rms).info.id.labels \in DOMAIN instances
    THEN IF ids = <<>>
         THEN [instances |-> instances, ids |-> ids,
               conflicts |-> conflicts, starved |-> TRUE]
         ELSE With(SetLabel(Head(rms).info.id.labels, ErrLabel,
                            get_unique_id(Head(ids))),
                   LAMBDA lb :
                     PlaceBack_ErrInOriginal(
                         PutKey(instances, lb,
                                [Head(rms) EXCEPT
                                    !.info.id.labels = lb,
                                    !.info.original_labels =
                                        SetLabel(@, ErrLabel, get_unique_id(Head(ids)))]),
                         Tail(rms), Tail(ids), conflicts + 1))
    ELSE PlaceBack_ErrInOriginal(
             PutKey(instances, Head(rms).info.id.labels, Head(rms)),
             Tail(rms), ids, conflicts)

\* The second loop that adds the err label to the key only and not to the
\* labels of the metric.
RECURSIVE PlaceBack_ErrInKeyOnly(_, _, _, _)
PlaceBack_ErrInKeyOnly(instances, rms, ids, conflicts) ==
    IF rms = <<>>
    THEN [instances |-> instances, ids |-> ids, conflicts |-> conflicts,
          starved |-> FALSE]
    ELSE IF Head(rms).info.id.labels \in DOMAIN instances
    THEN IF ids = <<>>
         THEN [instances |-> instances, ids |-> ids,
               conflicts |-> conflicts, starved |-> TRUE]
         ELSE PlaceBack_ErrInKeyOnly(
                  PutKey(instances,
                         SetLabel(Head(rms).info.id.labels, ErrLabel,
                                  get_unique_id(Head(ids))),
                         Head(rms)),
                  Tail(rms), Tail(ids), conflicts + 1)
    ELSE PlaceBack_ErrInKeyOnly(
             PutKey(instances, Head(rms).info.id.labels, Head(rms)),
             Tail(rms), ids, conflicts)

\* The second loop: the collected metrics are placed back, with an err
\* label when their label set is taken.
RECURSIVE PlaceBack(_, _, _, _)
PlaceBack(instances, rms, ids, conflicts) ==
    IF rms = <<>>
    THEN [instances |-> instances, ids |-> ids, conflicts |-> conflicts,
          starved |-> FALSE]
    ELSE IF Head(rms).info.id.labels \in DOMAIN instances
    THEN IF ids = <<>>
         THEN [instances |-> instances, ids |-> ids,
               conflicts |-> conflicts, starved |-> TRUE]
         ELSE With(SetLabel(Head(rms).info.id.labels, ErrLabel,
                            get_unique_id(Head(ids))),
                   LAMBDA lb :
                     PlaceBack(PutKey(instances, lb,
                                      [Head(rms) EXCEPT !.info.id.labels = lb]),
                               Tail(rms), Tail(ids), conflicts + 1))
    ELSE PlaceBack(PutKey(instances, Head(rms).info.id.labels, Head(rms)),
                   Tail(rms), ids, conflicts)

\* The loop over _value_map; names is what is left of the iteration.
RECURSIVE RelabelFamilies(_, _, _, _, _)
RelabelFamilies(w, h, names, ids, conflicts) ==
    IF names = <<>>
    THEN [w |-> w, metrics_relabeled_due_to_collision |-> conflicts,
          ids |-> ids, starved |-> FALSE]
    ELSE With(RelabelFamily(
                  w.impls[h].relabel_configs,
                  w.impls[h].value_map[Head(names)].instances,
                  KeysInOrder(DOMAIN w.impls[h].value_map[Head(names)].instances),
                  <<>>, FALSE),
              LAMBDA one :
                With(PlaceBack(one.instances, one.rms, ids, conflicts),
                     LAMBDA two :
                        IF two.starved
                        THEN [w |-> w,
                              metrics_relabeled_due_to_collision |-> conflicts,
                              ids |-> ids, starved |-> TRUE]
                        ELSE RelabelFamilies(
                                 [w EXCEPT
                                    !.impls[h].value_map[Head(names)].instances =
                                        two.instances,
                                    !.impls[h].dirty = @ \/ one.dirtied],
                                 h, Tail(names), two.ids, two.conflicts)))

\* impl::set_relabel_configs
set_relabel_configs(w, h, relabel_configs, ids) ==
    RelabelFamilies([w EXCEPT !.impls[h].relabel_configs = relabel_configs], h,
                    NamesInOrder(DOMAIN w.impls[h].value_map), ids, 0)

-----------------------------------------------------------------------------
(* set_metric_families_to_replicate.                                       *)

\* impl::remove_metric_replica_family: keys is what is left of the
\* iteration over the family.
RECURSIVE RemoveReplicas(_, _, _, _, _)
RemoveReplicas(w, h, name, keys, destination_handle) ==
    IF keys = <<>> THEN Ok(w)
    ELSE Then(remove_metric_replica(
                  w, w.impls[h].value_map[name].instances[Head(keys)].info.id,
                  destination_handle, 2),
              LAMBDA w1 : RemoveReplicas(w1, h, name, Tail(keys), destination_handle))

remove_metric_replica_family(w, h, name, destination_handle) ==
    IF name \notin DOMAIN w.impls[h].value_map THEN Ok(w)
    ELSE RemoveReplicas(w, h, name,
                        KeysInOrder(DOMAIN w.impls[h].value_map[name].instances),
                        destination_handle)

\* impl::replicate_metric_family: the range-for over the live family; done
\* is the set of keys the iterator has passed.
RECURSIVE ReplicateMembers(_, _, _, _, _)
ReplicateMembers(w, h, name, done, destination_handle) ==
    With({k \in DOMAIN w.impls[h].value_map[name].instances :
             \A p \in done : LabelsLess(p, k)} \ done,
         LAMBDA ahead :
            IF ahead = {} THEN Ok(w)
            ELSE With(MinLabels(ahead),
                      LAMBDA key :
                        Then(replicate_metric(
                                 w, h, w.impls[h].value_map[name].instances[key],
                                 w.impls[h].value_map[name], destination_handle),
                             LAMBDA w1 :
                                ReplicateMembers(w1, h, name, done \cup {key},
                                                 destination_handle))))

replicate_metric_family(w, h, name, destination_handle) ==
    IF name \notin DOMAIN w.impls[h].value_map THEN Ok(w)
    ELSE ReplicateMembers(w, h, name, {}, destination_handle)

\* The two loops of impl::set_metric_families_to_replicate.
RECURSIVE RemoveReplicaFamilies(_, _, _)
RemoveReplicaFamilies(w, h, mapping) ==
    IF mapping = <<>> THEN Ok(w)
    ELSE Then(remove_metric_replica_family(w, h, Head(mapping)[1], Head(mapping)[2]),
              LAMBDA w1 : RemoveReplicaFamilies(w1, h, Tail(mapping)))

RECURSIVE ReplicateFamilies(_, _, _)
ReplicateFamilies(w, h, mapping) ==
    IF mapping = <<>> THEN Ok(w)
    ELSE Then(replicate_metric_family(w, h, Head(mapping)[1], Head(mapping)[2]),
              LAMBDA w1 : ReplicateFamilies(w1, h, Tail(mapping)))

\* set_metric_families_to_replicate that adds the new mapping to the one
\* in effect instead of replacing it.
set_metric_families_to_replicate_KeepsOld(w, h, metric_families_to_replicate) ==
    Then(RemoveReplicaFamilies(w, h, w.impls[h].metric_families_to_replicate),
         LAMBDA w1 :
            Then(ReplicateFamilies(w1, h, metric_families_to_replicate),
                 LAMBDA w2 :
                    Ok([w2 EXCEPT !.impls[h].metric_families_to_replicate =
                                     @ \o metric_families_to_replicate])))

\* impl::set_metric_families_to_replicate
set_metric_families_to_replicate(w, h, metric_families_to_replicate) ==
    Then(RemoveReplicaFamilies(w, h, w.impls[h].metric_families_to_replicate),
         LAMBDA w1 :
            Then(ReplicateFamilies(w1, h, metric_families_to_replicate),
                 LAMBDA w2 :
                    Ok([w2 EXCEPT !.impls[h].metric_families_to_replicate =
                                     metric_families_to_replicate])))

-----------------------------------------------------------------------------
(* The instrumented code: metric definitions and scoped registration       *)
(* handles (metric_groups_impl).                                           *)

ShardLabel == <<"s","h","a","r","d">>
LevelLabel == <<"l","e","v","e","l">>

\* shard(): the model runs on shard 0.
shard == <<"0">>

\* The loop of metric_definition_impl's constructor over its label instances.
RECURSIVE LabelsOf(_, _)
LabelsOf(instances, labels) ==
    IF instances = <<>> THEN labels
    ELSE LabelsOf(Tail(instances), SetLabel(labels, Head(instances)[1], Head(instances)[2]))

\* metric_definition_impl::metric_definition_impl
metric_definition_impl(name, type, f, d, instances, aggregate_labels) ==
    [name |-> name, type |-> type, f |-> f, d |-> d, enabled |-> TRUE,
     skip_when_empty |-> "no",
     labels |-> With(LabelsOf(instances, NoLabels),
                     LAMBDA labels :
                        IF HasLabel(labels, ShardLabel) THEN labels
                        ELSE SetLabel(labels, ShardLabel, shard)),
     aggregate_labels |-> aggregate_labels]

Gauge == [base_type |-> "GAUGE", type_name |-> "gauge"]
Counter == [base_type |-> "COUNTER", type_name |-> "counter"]

Cpu == <<"c","p","u">>
BusyMs == <<"b","u","s","y","-","m","s">>
Io == <<"i","o">>
OpsCheck == <<"o","p","s"," ","c","h","e","c","k","+","(",")">>

\* The metric definitions the instrumented code submits: [group, md].
Definitions ==
    {[group |-> Cpu,
      md |-> metric_definition_impl(BusyMs, Gauge, "f1", "busy one",
                                    <<(<<LevelLabel, <<"1">> >>)>>, <<>>)],
     [group |-> Cpu,
      md |-> metric_definition_impl(BusyMs, Gauge, "f2", "busy two",
                                    <<(<<LevelLabel, <<"2">> >>)>>, <<LevelLabel>>)],
     [group |-> Cpu,
      md |-> metric_definition_impl(BusyMs, Gauge, "f3", "busy",
                                    <<>>, <<>>)],
     [group |-> Cpu,
      md |-> metric_definition_impl(BusyMs, Counter, "f4", "busy count",
                                    <<(<<LevelLabel, <<"1">> >>)>>, <<>>)],
     [group |-> Io,
      md |-> metric_definition_impl(OpsCheck, Counter, "f5", "ops",
                                    <<>>, <<>>)]}

FamilyNames == {full_name(metric_id(d.group, d.md.name, d.md.labels)) : d \in Definitions}

\* The scoped handles of the instrumented code and the registry each was
\* constructed for: metric_groups(handle).
GroupHandle == (1 :> 0) @@ (2 :> 0) @@ (3 :> 1)

Groups == DOMAIN GroupHandle

\* metric_groups_impl::metric_groups_impl(handle)
metric_groups_impl(handle) ==
    [handle |-> handle, registration |-> <<>>, uids |-> <<>>]

\* The uids the live scoped handles refer to.
Reserved(gs) == UNION {{gs[g].uids[i] : i \in 1..Len(gs[g].uids)} : g \in DOMAIN gs}

World(im, gs) == [impls |-> im, reserved |-> Reserved(gs)]

\* metric_groups_impl::add_metric
add_metric(w, group, name, md) ==
    With(add_registration(w, group.handle, metric_id(name, md.name, md.labels),
                          md.type, md.f, md.d, md.enabled, md.skip_when_empty,
                          md.aggregate_labels, NoSource),
         LAMBDA r :
            IF r.err # "none" THEN [w |-> r.w, err |-> r.err, group |-> group]
            ELSE [w |-> r.w, err |-> "none",
                  group |-> [group EXCEPT
                               !.registration =
                                   Append(@, metric_id(name, md.name, md.labels)),
                               !.uids = Append(@, NewUid(w))]])

\* metric_groups_impl::~metric_groups_impl: i is the position in _registration.
RECURSIVE UnregisterAll(_, _, _)
UnregisterAll(w, group, i) ==
    IF i > Len(group.registration) THEN Ok(w)
    ELSE Then(unregister_metric(w, group.registration[i], group.handle),
              LAMBDA w1 : UnregisterAll(w1, group, i + 1))

-----------------------------------------------------------------------------
(* The snapshot: _metadata, _current_metrics and _dirty.  A metric_metadata *)
(* lives in the heap under its address; a shared_ptr to it is the address,  *)
(* 0 is the null pointer, and an object that no shared_ptr refers to any    *)
(* more is freed.  fail is the position of the family at whose first        *)
(* emplace_back the allocator throws std::bad_alloc, 0 when it never does.  *)

\* std::vector::resize(n)
Resize(v, n) == [j \in 1..n |-> IF j <= Len(v) THEN v[j] ELSE <<>>]

\* The members of the family that the loop of update_metrics_if_needed
\* takes, in the order it meets them.
EnabledMembers(family) ==
    With(KeysInOrder(DOMAIN family.instances),
         LAMBDA keys :
            SelectSeq([j \in 1..Len(keys) |-> family.instances[keys[j]]],
                      LAMBDA m : m.info.enabled))

\* update_metrics_if_needed: for (auto&& mf : _value_map), from the family
\* at position p of names on; i, the number of families emitted, is Len(mt).
RECURSIVE RebuildFamilies(_, _, _, _, _, _)
RebuildFamilies(value_map, names, p, mt, cm, fail) ==
    IF p > Len(names)
    THEN [mt |-> mt, cm |-> Resize(cm, Len(mt)), err |-> "none"]
    ELSE With(EnabledMembers(value_map[names[p]]),
              LAMBDA ms :
                IF ms = <<>>
                THEN RebuildFamilies(value_map, names, p + 1, mt,
                                     [cm EXCEPT ![Len(mt) + 1] = <<>>], fail)
                ELSE IF fail = p
                THEN [mt |-> mt, cm |-> [cm EXCEPT ![Len(mt) + 1] = <<>>],
                      err |-> "bad_alloc"]
                ELSE RebuildFamilies(
                        value_map, names, p + 1,
                        Append(mt, [mf |-> value_map[names[p]].info,
                                    metrics |-> [j \in 1..Len(ms) |-> ms[j].info]]),
                        [cm EXCEPT ![Len(mt) + 1] = [j \in 1..Len(ms) |-> ms[j].f]],
                        fail))

\* ::seastar::make_shared<metric_metadata>(): an address not in use.
NewAddress(hp) ==
    CHOOSE a \in 1..(Cardinality(DOMAIN hp) + 1) : a \notin DOMAIN hp

\* The heap with a metric_metadata mt at address a.
Store(hp, a, mt) == [b \in DOMAIN hp \cup {a} |-> IF b = a THEN mt ELSE hp[b]]

\* update_metrics_if_needed that writes the new metadata into the object
\* _metadata points to instead of a new one.
update_metrics_InPlace(impl, hp, fail) ==
    IF ~impl.dirty THEN [impl |-> impl, heap |-> hp, err |-> "none"]
    ELSE With(IF impl.metadata = 0 THEN NewAddress(hp) ELSE impl.metadata,
              LAMBDA a :
                With(RebuildFamilies(
                        impl.value_map, NamesInOrder(DOMAIN impl.value_map), 1,
                        <<>>,
                        Resize(impl.current_metrics,
                               Cardinality(DOMAIN impl.value_map)),
                        fail),
                     LAMBDA r :
                        [impl |-> [impl EXCEPT !.metadata = a,
                                               !.current_metrics = r.cm,
                                               !.dirty = (r.err # "none")],
                         heap |-> Store(hp, a, r.mt),
                         err |-> r.err]))

\* update_metrics_if_needed that takes every member, enabled or not.
update_metrics_AllMembers(impl, hp, fail) ==
    IF ~impl.dirty THEN [impl |-> impl, heap |-> hp, err |-> "none"]
    ELSE With(NamesInOrder(DOMAIN impl.value_map),
              LAMBDA names :
                [impl |-> [impl EXCEPT
                             !.metadata = NewAddress(hp),
                             !.current_metrics =
                                [p \in 1..Len(names) |->
                                    With(KeysInOrder(DOMAIN impl.value_map[names[p]].instances),
                                         LAMBDA keys :
                                            [j \in 1..Len(keys) |->
                                                impl.value_map[names[p]].instances[keys[j]].f])],
                             !.dirty = FALSE],
                 heap |-> Store(hp, NewAddress(hp),
                                [p \in 1..Len(names) |->
                                    With(KeysInOrder(DOMAIN impl.value_map[names[p]].instances),
                                         LAMBDA keys :
                                            [mf |-> impl.value_map[names[p]].info,
                                             metrics |->
                                                [j \in 1..Len(keys) |->
                                                    impl.value_map[names[p]].instances[keys[j]].info]])]),
                 err |-> "none"])

\* impl::update_metrics_if_needed: _metadata is first pointed to a new,
\* empty metric_metadata; the result is built in another new one (mt_ref)
\* and in _current_metrics itself.
update_metrics_if_needed(impl, hp, fail) ==
    IF ~impl.dirty THEN [impl |-> impl, heap |-> hp, err |-> "none"]
    ELSE With(Store(hp, NewAddress(hp), <<>>),
              LAMBDA hp1 :
                With(RebuildFamilies(
                        impl.value_map, NamesInOrder(DOMAIN impl.value_map), 1,
                        <<>>,
                        Resize(impl.current_metrics,
                               Cardinality(DOMAIN impl.value_map)),
                        fail),
                     LAMBDA r :
                        IF r.err # "none"
                        THEN [impl |-> [impl EXCEPT !.metadata = NewAddress(hp),
                                                    !.current_metrics = r.cm],
                              heap |-> hp1, err |-> r.err]
                        ELSE [impl |-> [impl EXCEPT !.metadata = NewAddress(hp1),
                                                    !.current_metrics = r.cm,
                                                    !.dirty = FALSE],
                              heap |-> Store(hp1, NewAddress(hp1), r.mt),
                              err |-> "none"]))

\* impl::metadata(): ret is the shared_ptr returned.
metadata(impl, hp, fail) ==
    With(update_metrics_if_needed(impl, hp, fail),
         LAMBDA r : r @@ [ret |-> r.impl.metadata])

\* The metric_value a metric_function returns when it is called.
Call(f) == <<"value", f>>

\* get_values: metadata(), then functions() (which finds _dirty false), and
\* every function called.
get_values(impl, hp, fail) ==
    With(metadata(impl, hp, fail),
         LAMBDA r :
            [impl |-> r.impl, heap |-> r.heap, err |-> r.err,
             ret |-> [metadata |-> r.ret,
                      values |-> [i \in 1..Len(r.impl.current_metrics) |->
                                    [j \in 1..Len(r.impl.current_metrics[i]) |->
                                        Call(r.impl.current_metrics[i][j])]]]])

\* What the exporter holds of what it was returned: the shared_ptr of
\* metadata(), the reference of functions() (the handle of the registry
\* whose _current_metrics it refers to) and the values_copy of get_values.
NoReference == 0 - 1
NoCopy == [metadata |-> 0, values |-> <<>>]
NoSnapshot == [metadata |-> 0, functions |-> NoReference, copy |-> NoCopy]

\* The heap without the objects that no shared_ptr refers to.
Release(hp, im, ex) ==
    [a \in DOMAIN hp \cap ({im[h].metadata : h \in DOMAIN im}
                              \cup {ex.metadata, ex.copy.metadata}) |-> hp[a]]

-----------------------------------------------------------------------------
(* histogram: buckets, the vector of histogram_bucket (count, upper_bound), *)
(* sample_count and sample_sum.  The counts are uint64_t and the sums of    *)
(* the model stay far below 2^64; the bounds and sample_sum are doubles    *)
(* that hold small integers, which double addition adds exactly.           *)

\* The loop of histogram::operator+= from index i of c.buckets on (the
\* source counts from 0, the sequences from 1): [buckets |-> this->buckets
\* as the loop leaves them, err].
RECURSIVE AddBuckets(_, _, _)
AddBuckets(buckets, cb, i) ==
    IF i > Len(cb) THEN [buckets |-> buckets, err |-> "none"]
    ELSE IF Len(buckets) < i
    THEN AddBuckets(Append(buckets, cb[i]), cb, i + 1)
    ELSE IF buckets[i].upper_bound # cb[i].upper_bound
    THEN [buckets |-> buckets, err |-> "out_of_range"]
    ELSE AddBuckets([buckets EXCEPT ![i].count = @ + cb[i].count], cb, i + 1)

\* operator+= that merges a histogram without samples like any other.
histogram_add_NoZeroCheck(this, c) ==
    With(AddBuckets(this.buckets, c.buckets, 1),
         LAMBDA r :
            IF r.err # "none"
            THEN [this |-> [this EXCEPT !.buckets = r.buckets], err |-> r.err]
            ELSE [this |-> [buckets |-> r.buckets,
                            sample_count |-> this.sample_count + c.sample_count,
                            sample_sum |-> this.sample_sum + c.sample_sum],
                  err |-> "none"])

\* operator+= that throws whenever the numbers of buckets differ.
histogram_add_SameSize(this, c) ==
    IF c.sample_count = 0 THEN [this |-> this, err |-> "none"]
    ELSE IF Len(this.buckets) # Len(c.buckets)
    THEN [this |-> this, err |-> "out_of_range"]
    ELSE With(AddBuckets(this.buckets, c.buckets, 1),
              LAMBDA r :
                IF r.err # "none"
                THEN [this |-> [this EXCEPT !.buckets = r.buckets], err |-> r.err]
                ELSE [this |-> [buckets |-> r.buckets,
                                sample_count |-> this.sample_count + c.sample_count,
                                sample_sum |-> this.sample_sum + c.sample_sum],
                      err |-> "none"])

\* histogram::operator+=(c): [this |-> *this as the call leaves it, err |->
\* "none" or the exception thrown].
histogram_add(this, c) ==
    IF c.sample_count = 0 THEN [this |-> this, err |-> "none"]
    ELSE With(AddBuckets(this.buckets, c.buckets, 1),
              LAMBDA r :
                IF r.err # "none"
                THEN [this |-> [this EXCEPT !.buckets = r.buckets], err |-> r.err]
                ELSE [this |-> [buckets |-> r.buckets,
                                sample_count |-> this.sample_count + c.sample_count,
                                sample_sum |-> this.sample_sum + c.sample_sum],
                      err |-> "none"])

-----------------------------------------------------------------------------
(* The inputs of the operations and the bounds of the model.               *)

Semicolon == <<";">>

\* level := "1" on every metric whose name contains "busy"
ReplaceLevel ==
    relabel_config(<<NameLabel>>, Semicolon, <<"b","u","s","y">>, "replace",
                   LevelLabel, <<"1">>)
\* drop every metric whose name contains "cpu"
DropCpu ==
    relabel_config(<<NameLabel>>, Semicolon, <<"c","p","u">>, "drop", <<>>, <<>>)
\* keep the metrics whose level is 1
KeepLevel1 ==
    relabel_config(<<LevelLabel>>, Semicolon, <<"1">>, "keep", <<>>, <<>>)
\* remove the level label where level;shard is 2;0
DropLevel2 ==
    relabel_config(<<LevelLabel, ShardLabel>>, Semicolon, <<"2",";","0">>,
                   "drop_label", LevelLabel, <<>>)

\* level := "2" where level is 1
Level1To2 ==
    relabel_config(<<LevelLabel>>, Semicolon, <<"1">>, "replace", LevelLabel, <<"2">>)

\* drop every metric (every full name contains "_")
DropEvery ==
    relabel_config(<<NameLabel>>, Semicolon, <<"_">>, "drop", <<>>, <<>>)
\* skip the metrics whose name contains "cpu" when they are empty
SkipCpu ==
    relabel_config(<<NameLabel>>, Semicolon, <<"c","p","u">>, "skip_when_empty",
                   <<>>, <<>>)

\* remove the shard label of every metric whose name contains "busy"
DropShard ==
    relabel_config(<<NameLabel>>, Semicolon, <<"b","u","s","y">>, "drop_label",
                   ShardLabel, <<>>)
\* shard := "9" on every metric whose name contains "busy"
ReplaceShard ==
    relabel_config(<<NameLabel>>, Semicolon, <<"b","u","s","y">>, "replace",
                   ShardLabel, <<"9">>)

\* The rule lists set_relabel_configs is called with.
RuleLists ==
    {<<>>, <<ReplaceLevel>>, <<DropCpu, KeepLevel1, DropLevel2, Level1To2>>}

\* Outputs of std::random_device, four per id.
RandomDraws == {<<1, 2, 3, 4>>, <<5, 6, 7, 8>>}

\* The mappings set_metric_families_to_replicate is called with.
MaxMapping == 1

Mappings ==
    UNION {[1..n -> FamilyNames \X Handles] : n \in 0..MaxMapping}

\* At most this many series are registered directly in a registry, and a
\* scoped handle records at most this many identities.
MaxSeries == 3

MaxRegistration == 2

\* At most this many operations are executed in a behaviour.
MaxOps == 6

\* The orders in which a call may draw the outputs of RandomDraws.
DrawOrders ==
    LET n == Cardinality(RandomDraws)
    IN  {q \in [1..n -> RandomDraws] : \A i, j \in 1..n : i # j => q[i] # q[j]}

\* One of the orders, for the calls whose rules change no label.
SomeDraws == CHOOSE q \in DrawOrders : TRUE

\* The ids no call may draw again: the err values that some metric carries
\* in its original labels, or in its labels in a registry other than h.
IdsInUse(im, h) ==
    {m.info.original_labels[ErrLabel] :
        m \in {x \in AllMetrics(im) : HasLabel(x.info.original_labels, ErrLabel)}}
    \cup {m.info.id.labels[ErrLabel] :
        m \in {x \in AllMetrics(im) : x.impl # h /\ HasLabel(x.info.id.labels, ErrLabel)}}

NoOp ==
    [op |-> "none", h |-> default_handle, g |-> 0, def |-> <<>>, rules |-> <<>>,
     mapping |-> <<>>, err |-> "none", ret |-> 0, again |-> FALSE]

-----------------------------------------------------------------------------
(* The state machine.  Init is the state after the scoped handles were     *)
(* constructed; every registry is empty.                                   *)

Init ==
    /\ impls = [h \in Handles |-> EmptyImpl]
    /\ groups = [g \in Groups |-> metric_groups_impl(GroupHandle[g])]
    /\ crashed = FALSE
    /\ last = NoOp
    /\ steps = 0
    /\ heap = [a \in {} |-> <<>>]
    /\ exporter = NoSnapshot

\* What an operation that ended with op.err leaves behind.
Finish(w, gs, op) ==
    /\ impls' = w.impls
    /\ groups' = gs
    /\ crashed' = (op.err = "stack_overflow")
    /\ last' = op
    /\ steps' = steps + 1
    /\ UNCHANGED <<heap, exporter>>

\* What a retrieval of the exporter leaves behind: r is what the registry's
\* function returned and ex what the exporter holds afterwards.
FinishRetrieval(h, r, ex, op) ==
    /\ impls' = [impls EXCEPT ![h] = r.impl]
    /\ heap' = Release(r.heap, [impls EXCEPT ![h] = r.impl], ex)
    /\ exporter' = ex
    /\ last' = [NoOp EXCEPT !.op = op, !.h = h, !.err = r.err]
    /\ steps' = steps + 1
    /\ UNCHANGED <<groups, crashed>>

\* metric_groups_impl::add_metric(name, md) on scoped handle g
AddMetric(g, d) ==
    /\ ~crashed
    /\ steps < MaxOps
    /\ Len(groups[g].registration) < MaxRegistration
    /\ Cardinality({m \in AllMetrics(impls) :
                      m.impl = groups[g].handle /\ m.reg.src = NoSource}) < MaxSeries
    /\ With(add_metric(World(impls, groups), groups[g], d.group, d.md),
            LAMBDA r :
              Finish(r.w, [groups EXCEPT ![g] = r.group],
                     [NoOp EXCEPT !.op = "add_metric", !.g = g,
                                  !.h = groups[g].handle, !.def = d,
                                  !.err = r.err]))

\* metric_groups::clear() on scoped handle g: the metric_groups_impl is
\* replaced by a new one and destroyed, and its destructor unregisters
\* every identity it recorded.
Clear(g) ==
    /\ ~crashed
    /\ steps < MaxOps
    /\ With(UnregisterAll(World(impls, groups), groups[g], 1),
            LAMBDA r :
              Finish(r.w,
                     [groups EXCEPT ![g] = metric_groups_impl(groups[g].handle)],
                     [NoOp EXCEPT !.op = "clear", !.g = g,
                                  !.h = groups[g].handle, !.err = r.err]))

\* unregister_metric(id, handle) called with the identity of definition d
UnregisterMetric(h, d) ==
    /\ ~crashed
    /\ steps < MaxOps
    /\ With(unregister_metric(World(impls, groups),
                              metric_id(d.group, d.md.name, d.md.labels), h),
            LAMBDA r :
              Finish(r.w, groups,
                     [NoOp EXCEPT !.op = "unregister_metric", !.h = h,
                                  !.def = d, !.err = r.err]))

\* impl::set_relabel_configs(rules) on registry h; ids are the outputs
\* std::random_device gives the call, in the order it draws them.  The
\* ids a call draws are unique: none is an id already in use.
SetRelabelConfigs(h, rules, ids) ==
    /\ ~crashed
    /\ steps < MaxOps
    /\ With(set_relabel_configs(World(impls, groups), h, rules, ids),
            LAMBDA r :
              /\ ~r.starved
              /\ \A i \in 1..(Len(ids) - Len(r.ids)) :
                     get_unique_id(ids[i]) \notin IdsInUse(impls, h)
              /\ Finish(r.w, groups,
                        [NoOp EXCEPT !.op = "set_relabel_configs", !.h = h,
                                     !.rules = rules,
                                     !.ret = r.metrics_relabeled_due_to_collision,
                                     !.again = (last.op = "set_relabel_configs"
                                                /\ last.h = h
                                                /\ last.rules = rules)]))

\* replicate_metric_families(source_handle, mapping) on this shard
ReplicateMetricFamilies(h, mapping) ==
    /\ ~crashed
    /\ steps < MaxOps
    /\ With(set_metric_families_to_replicate(World(impls, groups), h, mapping),
            LAMBDA r :
              Finish(r.w, groups,
                     [NoOp EXCEPT !.op = "replicate_metric_families", !.h = h,
                                  !.mapping = mapping, !.err = r.err,
                                  !.again = (last.op = "replicate_metric_families"
                                             /\ last.h = h
                                             /\ last.mapping = mapping)]))

\* The exporter calls impl::metadata() of registry h and keeps the pointer;
\* a call that throws returns nothing.  The allocator throws only where the
\* rebuild allocates.
Metadata(h, fail) ==
    /\ ~crashed
    /\ steps < MaxOps
    /\ fail # 0 => (impls[h].dirty /\ fail <= Cardinality(DOMAIN impls[h].value_map))
    /\ With(metadata(impls[h], heap, fail),
            LAMBDA r :
              /\ fail # 0 => r.err = "bad_alloc"
              /\ FinishRetrieval(h, r,
                                 IF r.err # "none" THEN exporter
                                 ELSE [exporter EXCEPT !.metadata = r.ret],
                                 "metadata"))

\* The exporter calls impl::functions() of registry h and keeps the
\* reference to _current_metrics it returns.
Functions(h, fail) ==
    /\ ~crashed
    /\ steps < MaxOps
    /\ fail # 0 => (impls[h].dirty /\ fail <= Cardinality(DOMAIN impls[h].value_map))
    /\ With(update_metrics_if_needed(impls[h], heap, fail),
            LAMBDA r :
              /\ fail # 0 => r.err = "bad_alloc"
              /\ FinishRetrieval(h, r,
                                 IF r.err # "none" THEN exporter
                                 ELSE [exporter EXCEPT !.functions = h],
                                 "functions"))

\* The exporter calls get_values(h) and keeps the values_copy.
GetValues(h, fail) ==
    /\ ~crashed
    /\ steps < MaxOps
    /\ fail # 0 => (impls[h].dirty /\ fail <= Cardinality(DOMAIN impls[h].value_map))
    /\ With(get_values(impls[h], heap, fail),
            LAMBDA r :
              /\ fail # 0 => r.err = "bad_alloc"
              /\ FinishRetrieval(h, r,
                                 IF r.err # "none" THEN exporter
                                 ELSE [exporter EXCEPT !.copy = r.ret],
                                 "get_values"))

\* metric_id(group, name).full_name() is computed
FullName(group, name) ==
    /\ last' = [NoOp EXCEPT !.op = "full_name",
                            !.def = [group |-> group, name |-> name],
                            !.ret = full_name(metric_id(group, name, NoLabels))]
    /\ UNCHANGED <<impls, groups, crashed, steps, heap, exporter>>

\* a += c is computed for the histograms a and c
HistogramAdd(a, c) ==
    /\ With(histogram_add(a, c),
            LAMBDA r :
              last' = [NoOp EXCEPT !.op = "histogram_add",
                                   !.def = [this |-> a, c |-> c],
                                   !.ret = r.this, !.err = r.err])
    /\ UNCHANGED <<impls, groups, crashed, steps, heap, exporter>>

\* apply_relabeling(rc, info) is called for the rule rc and the info of a
\* metric
ApplyRelabeling(rc, info) ==
    /\ last' = [NoOp EXCEPT !.op = "apply_relabeling",
                            !.def = [rc |-> rc, info |-> info],
                            !.ret = apply_relabeling(rc, info)]
    /\ UNCHANGED <<impls, groups, crashed, steps, heap, exporter>>

\* One pass of the rule list configs over the info of a metric: the loop
\* of add_registration and of set_relabel_configs.
RelabelPass(configs, info) ==
    /\ last' = [NoOp EXCEPT !.op = "relabel_pass",
                            !.rules = configs,
                            !.def = [info |-> info],
                            !.ret = ApplyRules(configs, info, 1, FALSE)]
    /\ UNCHANGED <<impls, groups, crashed, steps, heap, exporter>>

\* The definition whose value function is f.
Def(f) == CHOOSE d \in Definitions : d.md.f = f

\* The name of the family a definition registers into.
FamilyOf(d) == full_name(metric_id(d.group, d.md.name, <<>>))

\* Registration and teardown through two scoped handles of the default
\* registry, with and without a relabel rule.
Next ==
    \/ \E g \in {1, 2}, d \in {Def("f1"), Def("f2"), Def("f4"), Def("f5")} :
            AddMetric(g, d)
    \/ \E g \in {1, 2} : Clear(g)
    \/ \E rules \in {<<>>, <<ReplaceLevel>>}, ids \in DrawOrders :
            SetRelabelConfigs(default_handle, rules, ids)

Spec == Init /\ [][Next]_vars

\* Relabelling of the default registry's family cpu_busy_ms.
NextRelabel ==
    \/ \E g \in {1, 2}, d \in {Def("f1"), Def("f2"), Def("f3")} : AddMetric(g, d)
    \/ \E g \in {1, 2} : Clear(g)
    \/ \E rules \in RuleLists, ids \in DrawOrders :
            SetRelabelConfigs(default_handle, rules, ids)

SpecRelabel == Init /\ [][NextRelabel]_vars

\* Replication of cpu_busy_ms from the default registry to registry 1,
\* which has a scoped handle and relabel rules of its own.
NextReplicate ==
    \/ \E g \in {1, 3}, d \in {Def("f1"), Def("f2")} : AddMetric(g, d)
    \/ \E g \in {1, 3} : Clear(g)
    \/ \E h \in Handles, rules \in {<<>>, <<ReplaceLevel>>}, ids \in DrawOrders :
            SetRelabelConfigs(h, rules, ids)
    \/ \E mapping \in {<<>>, <<(<<FamilyOf(Def("f1")), 1>>)>>} :
            ReplicateMetricFamilies(default_handle, mapping)

SpecReplicate == Init /\ [][NextReplicate]_vars

\* Registration, replication and unregister_metric called directly.
NextUnregister ==
    \/ \E g \in {1, 3}, d \in {Def("f1"), Def("f2")} : AddMetric(g, d)
    \/ \E h \in Handles, d \in {Def("f1"), Def("f2")} : UnregisterMetric(h, d)
    \/ \E mapping \in {<<>>, <<(<<FamilyOf(Def("f1")), 1>>)>>} :
          ReplicateMetricFamilies(default_handle, mapping)

SpecUnregister == Init /\ [][NextUnregister]_vars

\* The strings of at most n of the characters that safe_name treats and
\* one of the others.
MaxName == 3
MaxGroup == 1

Strings(n) ==
    UNION {[1..k -> {"a", "_", "-", " ", "+", "(", ")"}] : k \in 0..n}

\* full_name of the names of the instrumented code and of short strings,
\* computed once in a behaviour.
NextName ==
    /\ last.op = "none"
    /\ \E group \in Strings(MaxGroup) \cup {Cpu, Io},
          name \in Strings(MaxName) \cup {BusyMs, OpsCheck} : FullName(group, name)

SpecName == Init /\ [][NextName]_vars

\* Registration and rules that target the shard label.
NextShard ==
    \/ \E g \in {1, 2}, d \in {Def("f1"), Def("f2"), Def("f5")} : AddMetric(g, d)
    \/ \E g \in {1, 2} : Clear(g)
    \/ \E rules \in {<<>>, <<ReplaceShard>>, <<DropShard>>}, ids \in DrawOrders :
          SetRelabelConfigs(default_handle, rules, ids)

SpecShard == Init /\ [][NextShard]_vars

\* Registration, relabelling and the exporter's retrievals on the default
\* registry.
MaxFamilies == 2

NextSnapshot ==
    \/ \E d \in {Def("f1"), Def("f2")} : AddMetric(1, d)
    \/ AddMetric(2, Def("f5"))
    \/ \E g \in {1, 2} : Clear(g)
    \/ \E rules \in {<<DropEvery, KeepLevel1>>, <<SkipCpu>>} :
          SetRelabelConfigs(default_handle, rules, SomeDraws)
    \/ \E fail \in 0..MaxFamilies : Metadata(default_handle, fail)
    \/ \E fail \in 0..MaxFamilies : Functions(default_handle, fail)
    \/ \E fail \in 0..MaxFamilies : GetValues(default_handle, fail)

SpecSnapshot == Init /\ [][NextSnapshot]_vars

\* The histograms that are merged: at most MaxBuckets buckets with rising
\* upper bounds, every count at most the number of samples, which is at
\* most MaxCount, and a sum of 0 where there is no sample.
MaxBuckets == 2
MaxCount == 1

UpperBounds == {10, 50, 60}

BucketLists(n, samples) ==
    UNION {{b \in [1..k -> [count : 0..samples, upper_bound : UpperBounds]] :
               \A i \in 1..(k - 1) : b[i].upper_bound < b[i + 1].upper_bound} :
           k \in 0..n}

Histograms ==
    UNION {[buckets : BucketLists(MaxBuckets, s), sample_count : {s},
            sample_sum : IF s = 0 THEN {0} ELSE {0, 7}] : s \in 0..MaxCount}

\* One merge of two histograms in a behaviour.
NextHistogram ==
    /\ last.op = "none"
    /\ \E a \in Histograms, c \in Histograms : HistogramAdd(a, c)

SpecHistogram == Init /\ [][NextHistogram]_vars

\* keep the metrics whose name and level, joined, contain "ms;1"
KeepMsLevel1 ==
    relabel_config(<<NameLabel, LevelLabel>>, Semicolon, <<"m","s",";","1">>,
                   "keep", <<>>, <<>>)
\* report the metrics whose level, then name, contain "cpu" when empty
ReportCpu ==
    relabel_config(<<LevelLabel, NameLabel>>, <<>>, <<"c","p","u">>,
                   "report_when_empty", <<>>, <<>>)
\* drop every metric: no source label, the empty expression
DropAll == relabel_config(<<>>, Semicolon, <<>>, "drop", <<>>, <<>>)

\* The rules apply_relabeling is called with.
Rules ==
    {ReplaceLevel, DropCpu, KeepLevel1, DropLevel2, Level1To2, DropEvery,
     SkipCpu, DropShard, ReplaceShard, KeepMsLevel1, ReportCpu, DropAll}

\* The infos apply_relabeling is called with: the info of a definition as
\* registered_metric constructs it, with either value of either flag.
Infos ==
    {registered_metric(metric_id(d.group, d.md.name, d.md.labels), d.md.f,
                       enabled, skip, default_handle).info :
        d \in Definitions, enabled \in BOOLEAN, skip \in {"yes", "no"}}

\* The rule lists of at most MaxRules rules a pass is made with.
MaxRules == 2

PassRules == {DropEvery, KeepLevel1, ReplaceLevel, Level1To2, DropLevel2, DropCpu}

PassLists == UNION {[1..n -> PassRules] : n \in 0..MaxRules}

\* One call of apply_relabeling, or one pass of a rule list, in a behaviour.
NextRule ==
    \/ /\ last.op = "none"
       /\ \E rc \in Rules, info \in Infos : ApplyRelabeling(rc, info)
    \/ /\ last.op = "none"
       /\ \E configs \in PassLists, info \in Infos : RelabelPass(configs, info)

SpecRule == Init /\ [][NextRule]_vars

\* Registration and removal under mappings of cpu_busy_ms from either
\* registry to either registry, its own handle included.
NextCycle ==
    \/ \E g \in {1, 3}, d \in {Def("f1"), Def("f2")} : AddMetric(g, d)
    \/ \E g \in {1, 3} : Clear(g)
    \/ \E h \in Handles : UnregisterMetric(h, Def("f1"))
    \/ \E h \in Handles, dest \in Handles :
          ReplicateMetricFamilies(h, <<(<<FamilyOf(Def("f1")), dest>>)>>)
    \/ \E h \in Handles : ReplicateMetricFamilies(h, <<>>)

SpecCycle == Init /\ [][NextCycle]_vars

-----------------------------------------------------------------------------
(* Properties.  An action property speaks of one step: the unprimed        *)
(* variables are the state the operation found, the primed ones the state  *)
(* it left, and last' names the operation and its arguments.               *)

NoInstances == [k \in {} |-> <<>>]

\* The metric_instances of family name in registry h.
InstancesOf(im, h, name) ==
    IF name \in DOMAIN im[h].value_map THEN im[h].value_map[name].instances
    ELSE NoInstances

\* The label set the rules of registry h give definition d: the key
\* add_registration stores it under.
RegistrationLabels(im, h, d) ==
    ApplyRules(im[h].relabel_configs,
               registered_metric(metric_id(d.group, d.md.name, d.md.labels),
                                 d.md.f, d.md.enabled, d.md.skip_when_empty,
                                 h).info,
               1, FALSE).info.id.labels

\* Definition d names a family of registry h that holds its label set.
IsDuplicate(im, h, d) ==
    RegistrationLabels(im, h, d) \in DOMAIN InstancesOf(im, h, FamilyOf(d))

\* Definition d names a family of registry h of another base type.
IsTypeMismatch(im, h, d) ==
    /\ FamilyOf(d) \in DOMAIN im[h].value_map
    /\ im[h].value_map[FamilyOf(d)].info.type # d.md.type.base_type

\* The family definition d names is what it was before the step.
FamilyUnchanged(h, d) ==
    /\ (FamilyOf(d) \in DOMAIN impls[h].value_map)
            <=> (FamilyOf(d) \in DOMAIN impls'[h].value_map)
    /\ FamilyOf(d) \in DOMAIN impls[h].value_map
            => impls'[h].value_map[FamilyOf(d)] = impls[h].value_map[FamilyOf(d)]

\* C1: registering a metric whose full name and label set, as relabelled by
\* the registry's rules, are those of a registered metric fails with
\* double_registration and leaves the family as it was.
C1_DuplicateRegistration ==
    [][(last'.op = "add_metric" /\ IsDuplicate(impls, last'.h, last'.def))
          => (/\ last'.err = "double_registration"
              /\ FamilyUnchanged(last'.h, last'.def))]_vars

\* A registration failed as a duplicate although the label set it was
\* submitted with is not registered: the relabelled one is.
C1_Witness ==
    /\ last.op = "add_metric"
    /\ last.err = "double_registration"
    /\ impls[last.h].relabel_configs # <<>>
    /\ last.def.md.labels \notin DOMAIN InstancesOf(impls, last.h, FamilyOf(last.def))

\* Every member of every family was registered with the family's base type.
SameBaseType(im) ==
    \A h \in DOMAIN im : \A n \in DOMAIN im[h].value_map :
        \A k \in DOMAIN im[h].value_map[n].instances :
            im[h].value_map[n].instances[k].reg.base_type
                = im[h].value_map[n].info.type

\* C2 as the specification states it: registering a metric under the name
\* of a family of another base type fails with a type mismatch
\* (runtime_error), whatever its label set, and adds no member.
C2_AlwaysTypeMismatch ==
    [][(last'.op = "add_metric" /\ IsTypeMismatch(impls, last'.h, last'.def))
          => (/\ last'.err = "runtime_error"
              /\ FamilyUnchanged(last'.h, last'.def))]_vars

\* C2: registering a metric under the name of a family of another base
\* type fails and adds no member: with double_registration when its
\* relabelled label set is registered in the family, with a type mismatch
\* (runtime_error) otherwise; every member of a family has the family's
\* base type.
C2_TypeMismatch ==
    [][/\ (last'.op = "add_metric" /\ IsTypeMismatch(impls, last'.h, last'.def))
            => (/\ last'.err = (IF IsDuplicate(impls, last'.h, last'.def)
                                THEN "double_registration" ELSE "runtime_error")
                /\ FamilyUnchanged(last'.h, last'.def))
       /\ SameBaseType(impls')]_vars

\* A counter was refused by a family of gauges that does not hold its
\* label set.
C2_Witness ==
    /\ last.op = "add_metric"
    /\ last.err = "runtime_error"
    /\ IsTypeMismatch(impls, last.h, last.def)
    /\ ~IsDuplicate(impls, last.h, last.def)

\* The identities of the registered metrics.
LiveUids(im) == {m.uid : m \in AllMetrics(im)}

\* The identities scoped handle g registered.
GroupUids(gs, g) == {gs[g].uids[i] : i \in 1..Len(gs[g].uids)}

\* C3: destroying a scoped handle removes exactly the metrics it
\* registered, whatever relabelling took place in between.
C3_ScopedRemoval ==
    [][last'.op = "clear"
          => LiveUids(impls') = LiveUids(impls) \ GroupUids(groups, last'.g)]_vars

\* The entries of the registries: metric rm is stored under key in family
\* name of registry h.
Entries(im) ==
    UNION {UNION {{[h |-> h, name |-> n, key |-> k,
                    rm |-> im[h].value_map[n].instances[k]] :
                      k \in DOMAIN im[h].value_map[n].instances} :
                  n \in DOMAIN im[h].value_map} : h \in DOMAIN im}

\* What the rules make of entry e's original labels, given the enabled and
\* skip values it starts from.
Evaluated(rules, e, enabled, skip) ==
    ApplyRules(rules,
               [id |-> [e.rm.info.id EXCEPT !.labels = e.rm.info.original_labels],
                original_labels |-> e.rm.info.original_labels,
                enabled |-> enabled, should_skip_when_empty |-> skip],
               1, FALSE).info

\* The label set the rules give entry e.
EvaluatedLabels(rules, e) ==
    Evaluated(rules, e, e.rm.info.enabled,
              e.rm.info.should_skip_when_empty).id.labels

\* Entry e carries the label set the rules give it and an err label that
\* set does not have or has with another value.
CarriesErr(rules, e) ==
    /\ e.rm.info.id.labels # EvaluatedLabels(rules, e)
    /\ HasLabel(e.rm.info.id.labels, ErrLabel)
    /\ e.rm.info.id.labels
         = SetLabel(EvaluatedLabels(rules, e), ErrLabel, e.rm.info.id.labels[ErrLabel])

\* Label sets a and b have the same names and, but for err, the same values.
SameButErr(a, b) ==
    /\ DOMAIN a = DOMAIN b
    /\ \A k \in (DOMAIN a) \ {ErrLabel} : a[k] = b[k]

\* The step is a set_relabel_configs with the rules of the call before it.
IsRepeatedRelabel == last'.op = "set_relabel_configs" /\ last'.again

\* C4 as the specification states it: a second set_relabel_configs with the
\* same rules leaves every metric, the collided ones included, with the
\* label set the first call left.
C4_SameLabelSets ==
    [][IsRepeatedRelabel
          => \A e \in Entries(impls') :
                \E f \in Entries(impls) :
                    /\ f.rm.uid = e.rm.uid
                    /\ f.rm.info.id.labels = e.rm.info.id.labels]_vars

\* C4: a second set_relabel_configs with the same rules leaves every metric
\* with the label set the first call left, except that a metric that
\* carries the err label of a collision carries it again with a newly
\* drawn value.
C4_SameLabelSetsButErr ==
    [][IsRepeatedRelabel
          => /\ LiveUids(impls') = LiveUids(impls)
             /\ \A e \in Entries(impls') :
                  \E f \in Entries(impls) :
                    /\ f.rm.uid = e.rm.uid
                    /\ \/ f.rm.info.id.labels = e.rm.info.id.labels
                       \/ /\ SameButErr(f.rm.info.id.labels, e.rm.info.id.labels)
                          /\ CarriesErr(last'.rules, f)
                          /\ CarriesErr(last'.rules, e)]_vars

\* The same rules were set twice in a row and a metric collided both times.
C4_Witness ==
    /\ last.op = "set_relabel_configs"
    /\ last.again
    /\ last.rules # <<>>
    /\ last.ret > 0

\* C5: after set_relabel_configs every metric has the enabled flag and the
\* skip flag the rules give the values it was registered with, and the
\* label set the rules give its original labels (with an err label where
\* it collided).
C5_NotCumulative ==
    [][last'.op = "set_relabel_configs"
          => \A e \in {x \in Entries(impls') : x.h = last'.h} :
                /\ e.rm.info.enabled
                     = Evaluated(last'.rules, e, e.rm.reg.enabled,
                                 e.rm.reg.skip).enabled
                /\ e.rm.info.should_skip_when_empty
                     = Evaluated(last'.rules, e, e.rm.reg.enabled,
                                 e.rm.reg.skip).should_skip_when_empty
                /\ \/ e.rm.info.id.labels = EvaluatedLabels(last'.rules, e)
                   \/ CarriesErr(last'.rules, e)]_vars

\* C6: set_relabel_configs with no rules leaves every metric stored under
\* and carrying its original labels, none with an err label, and returns
\* the collision count 0.
C6_EmptyRestores ==
    [][(last'.op = "set_relabel_configs" /\ last'.rules = <<>>)
          => /\ last'.ret = 0
             /\ \A e \in {x \in Entries(impls') : x.h = last'.h} :
                  /\ e.key = e.rm.info.original_labels
                  /\ e.rm.info.id.labels = e.rm.info.original_labels]_vars

\* What the call made of the metrics of its registry: of each its identity,
\* its family, the key it is stored under, the label set it carries and the
\* label set the rules of the call give it (target).
Outcomes ==
    {[uid |-> e.rm.uid, name |-> e.name, key |-> e.key,
      labels |-> e.rm.info.id.labels,
      target |-> EvaluatedLabels(last'.rules, e)] :
        e \in {x \in Entries(impls') : x.h = last'.h}}

\* The metric is stored under and carries its target with an err label.
Collided(o) ==
    /\ o.labels # o.target
    /\ o.key = o.labels
    /\ HasLabel(o.labels, ErrLabel)
    /\ o.labels = SetLabel(o.target, ErrLabel, o.labels[ErrLabel])

\* The metric is stored under and carries its target.
Settled(o) == o.key = o.target /\ o.labels = o.target

\* Two metrics of one family that the rules give the same label set.
Collide(a, b) == a.uid # b.uid /\ a.name = b.name /\ a.target = b.target

\* What C7 says of the metrics but for the number of err labels: all
\* remain, a metric stored under the label set the rules give it keeps it,
\* and the call returns the number of metrics that carry an err label.
CollisionsKept(os) ==
    /\ LiveUids(impls') = LiveUids(impls)
    /\ \A e \in {x \in Entries(impls) : x.h = last'.h} :
          \A o \in os : (o.uid = e.rm.uid /\ e.key = o.target) => Settled(o)
    /\ last'.ret = Cardinality({o \in os : Collided(o)})

\* C7 as the specification states it: of two metrics that the rules give
\* the same label set exactly one carries the err label.
C7_ExactlyOneOfTwo ==
    [][last'.op = "set_relabel_configs"
          => \A os \in {Outcomes} :
                /\ CollisionsKept(os)
                /\ \A a, b \in os :
                      Collide(a, b) => (Collided(a) # Collided(b))]_vars

\* C7: of the metrics of a family that the rules give the same label set
\* one is stored under it without an err label and every other one carries
\* an err label of its own, so of two of them at least one does; all
\* remain, the one stored under the label set keeps it, and each err label
\* adds 1 to the returned count.
C7_AllButOne ==
    [][last'.op = "set_relabel_configs"
          => \A os \in {Outcomes} :
                /\ CollisionsKept(os)
                /\ \A a, b \in os :
                      Collide(a, b)
                        => /\ Collided(a) \/ Collided(b)
                           /\ Collided(a) \/ Settled(a)
                           /\ a.key # b.key]_vars

\* Three metrics of a family were given one label set: two carry err.
C7_Witness ==
    /\ last.op = "set_relabel_configs"
    /\ last.ret = 2
    /\ Cardinality({e \in Entries(impls) : CarriesErr(last.rules, e)}) = 2

\* Registry h replicates family name to registry dest.
Replicates(im, h, name, dest) ==
    \E i \in DOMAIN im[h].metric_families_to_replicate :
        im[h].metric_families_to_replicate[i] = <<name, dest>>

\* The replicas registry dest holds of the metric u of registry h.
ReplicasOf(im, h, u, dest) ==
    {e \in Entries(im) : e.h = dest /\ e.rm.reg.src = [handle |-> h, uid |-> u]}

\* C8: once registry h replicates family F to registry H, a registration
\* in F on h that returns registers a replica in H, and a series of F that
\* a later removal takes from h has no replica left in H.
C8_Mirrored ==
    [][/\ (last'.op = "add_metric" /\ last'.err = "none")
            => \A e \in Entries(impls') :
                  (e.h = last'.h /\ e.rm.uid \notin LiveUids(impls))
                    => \A dest \in Handles :
                          Replicates(impls, e.h, e.name, dest)
                            => ReplicasOf(impls', e.h, e.rm.uid, dest) # {}
       /\ (last'.op = "clear" /\ last'.err = "none")
            => \A e \in Entries(impls) :
                  (e.h = last'.h /\ e.rm.uid \notin LiveUids(impls'))
                    => \A dest \in Handles :
                          Replicates(impls, e.h, e.name, dest)
                            => ReplicasOf(impls', e.h, e.rm.uid, dest) = {}]_vars

\* The step is a set_metric_families_to_replicate that returned.
IsReplicate == last'.op = "replicate_metric_families" /\ last'.err = "none"

\* The members of family name of registry h.
MembersOf(im, h, name) == {e \in Entries(im) : e.h = h /\ e.name = name}

\* The copy add_registration makes in registry dest of the source entry s.
CopyInfo(im, dest, s) ==
    ApplyRules(im[dest].relabel_configs,
               registered_metric(s.rm.info.id, s.rm.f, s.rm.info.enabled,
                                 s.rm.info.should_skip_when_empty, dest).info,
               1, FALSE).info

C10_OldReplicasRemoved ==
    [][IsReplicate
          => \A s \in Entries(impls') :
                s.h = last'.h
                  => \A dest \in Handles :
                        ReplicasOf(impls', s.h, s.rm.uid, dest) # {}
                            => \E i \in DOMAIN last'.mapping :
                                  last'.mapping[i] = <<s.name, dest>>]_vars

\* The label sets of the members of family name of registry h.
LabelSetsOf(im, h, name) ==
    {e.rm.info.id.labels : e \in MembersOf(im, h, name)}

\* The label sets of the replicas registry dest holds, under family name,
\* of metrics of registry h.
ReplicaLabelSets(im, h, name, dest) ==
    {e.rm.info.id.labels :
        e \in {x \in MembersOf(im, dest, name) : x.rm.reg.src.handle = h}}

\* C11: in every reachable state, for every pair (F, H) of a registry's
\* replication mapping, the label sets of the members of F in the registry
\* are the label sets of the replicas under F in H.
C11_ReplicaFidelity ==
    \A h \in Handles :
        \A i \in DOMAIN impls[h].metric_families_to_replicate :
            With(impls[h].metric_families_to_replicate[i],
                 LAMBDA m : LabelSetsOf(impls, h, m[1])
                              = ReplicaLabelSets(impls, h, m[1], m[2]))

\* The families of the registries with their members.
ValueMaps(im) == [h \in DOMAIN im |-> im[h].value_map]

\* C12: an add_registration that raises an error leaves the families of
\* every registry and the identity list of the issuing scoped handle as
\* they were before the call.
C12_FailedRegistrationChangesNothing ==
    [][(last'.op = "add_metric" /\ last'.err # "none")
          => /\ ValueMaps(impls') = ValueMaps(impls)
             /\ groups'[last'.g].registration = groups[last'.g].registration]_vars

\* The identity of the step's definition is registered in registry h.
IsRegistered(im, h, d) ==
    /\ FamilyOf(d) \in DOMAIN im[h].value_map
    /\ d.md.labels \in DOMAIN im[h].value_map[FamilyOf(d)].instances

\* C13: remove_registration of an identity that is not registered in the
\* registry raises no error and changes no family and no member of any
\* registry.
C13_AbsentRemovalIsNoOp ==
    [][(last'.op = "unregister_metric" /\ ~IsRegistered(impls, last'.h, last'.def))
          => /\ last'.err = "none"
             /\ ValueMaps(impls') = ValueMaps(impls)]_vars

\* The enabled members of family name of registry h.
EnabledOf(im, h, name) ==
    {e \in MembersOf(im, h, name) : e.rm.info.enabled}

\* The elements of a sequence.
Range(s) == {s[j] : j \in DOMAIN s}

\* The metadata mt and the function list cm list exactly the enabled
\* metrics of registry h: a family iff it has an enabled member, each
\* once, with exactly its enabled members, each once, and cm has for every
\* family of mt and every metric listed in it the metric's function at the
\* same position.
ListsEnabled(im, h, mt, cm) ==
    /\ {mt[i].mf.name : i \in DOMAIN mt}
          = {n \in DOMAIN im[h].value_map : EnabledOf(im, h, n) # {}}
    /\ Len(cm) = Len(mt)
    /\ \A i \in DOMAIN mt :
          /\ \A k \in DOMAIN mt : mt[k].mf.name = mt[i].mf.name => k = i
          /\ mt[i].mf = im[h].value_map[mt[i].mf.name].info
          /\ {m.id : m \in Range(mt[i].metrics)}
                = {e.rm.info.id : e \in EnabledOf(im, h, mt[i].mf.name)}
          /\ Len(mt[i].metrics) = Cardinality(EnabledOf(im, h, mt[i].mf.name))
          /\ Len(cm[i]) = Len(mt[i].metrics)
          /\ \A j \in DOMAIN mt[i].metrics :
                \E e \in EnabledOf(im, h, mt[i].mf.name) :
                    e.rm.info.id = mt[i].metrics[j].id /\ e.rm.f = cm[i][j]

\* C14: the snapshot that metadata()/functions() return, which is the
\* cache of a registry whose _dirty is false, lists exactly the enabled
\* registered metrics, and the function list is parallel to the metadata.
C14_SnapshotListsEnabled ==
    \A h \in Handles :
        ~impls[h].dirty
          => /\ impls[h].metadata \in DOMAIN heap
             /\ ListsEnabled(impls, h, heap[impls[h].metadata],
                             impls[h].current_metrics)

\* A snapshot was returned of a registry with a family that has an enabled
\* and a disabled member and a family that has no enabled member.
C14_Witness ==
    /\ last.op \in {"metadata", "functions", "get_values"}
    /\ last.err = "none"
    /\ \E n \in DOMAIN impls[last.h].value_map :
          /\ EnabledOf(impls, last.h, n) # {}
          /\ EnabledOf(impls, last.h, n) # MembersOf(impls, last.h, n)
    /\ \E n \in DOMAIN impls[last.h].value_map : EnabledOf(impls, last.h, n) = {}

\* The operations of the exporter.
Retrievals == {"metadata", "functions", "get_values"}

\* The metric_metadata at address a is in the heap after the step with the
\* contents it had before.
SameObject(a) == a \in DOMAIN heap' /\ heap'[a] = heap[a]

\* The metadata tree and the values_copy that the exporter keeps holding
\* are unchanged by the step.
OwnedUnchanged ==
    /\ (exporter.metadata # 0 /\ exporter'.metadata = exporter.metadata)
          => SameObject(exporter.metadata)
    /\ (exporter.copy # NoCopy /\ exporter'.copy = exporter.copy)
          => SameObject(exporter.copy.metadata)

\* The function list that the exporter holds a reference to is unchanged by
\* the step.
FunctionsUnchanged ==
    exporter.functions # NoReference
      => impls'[exporter.functions].current_metrics
            = impls[exporter.functions].current_metrics

C16_FailedRebuildKeepsCache ==
    [][(last'.op \in Retrievals /\ last'.err # "none" /\ impls[last'.h].metadata # 0)
          => /\ impls'[last'.h].metadata \in DOMAIN heap'
             /\ heap'[impls'[last'.h].metadata] = heap[impls[last'.h].metadata]
             /\ impls'[last'.h].current_metrics = impls[last'.h].current_metrics]_vars

\* What the registries hold, whichever objects hold it: the families with
\* their metadata, the members with their keys, infos and functions, and
\* the replication mappings.
Contents(im) ==
    [h \in DOMAIN im |->
        [families |-> [n \in DOMAIN im[h].value_map |-> im[h].value_map[n].info],
         members |-> {[name |-> e.name, key |-> e.key, info |-> e.rm.info,
                       f |-> e.rm.f] : e \in {x \in Entries(im) : x.h = h}},
         mapping |-> im[h].metric_families_to_replicate]]

\* C17: set_metric_families_to_replicate(M) called again right after a call
\* with the same M that returned succeeds and leaves every registry and
\* the mapping as the first call left them.
C17_ReplayIsIdempotent ==
    [][(last'.op = "replicate_metric_families" /\ last'.again /\ last.err = "none")
          => /\ last'.err = "none"
             /\ Contents(impls') = Contents(impls)]_vars

\* C18: in every reachable state the label set of every registered metric
\* contains the shard label.
C18_ShardLabelPresent ==
    \A m \in AllMetrics(impls) : HasLabel(m.info.id.labels, ShardLabel)

\* A world of empty registries with no rules.
EmptyWorld == [impls |-> [h \in Handles |-> EmptyImpl], reserved |-> {}]

\* The metrics registry h holds after definition d is registered in it with
\* no rules active and set_relabel_configs(rules) is called afterwards.
RegisteredThenRelabelled(h, d, rules) ==
    AllMetrics(
        set_relabel_configs(
            add_registration(EmptyWorld, h,
                             metric_id(d.group, d.md.name, d.md.labels),
                             d.md.type, d.md.f, d.md.d, d.md.enabled,
                             d.md.skip_when_empty, d.md.aggregate_labels,
                             NoSource).w,
            h, rules, <<>>).w.impls)

\* C19: a metric registered while a rule list is active is stored under,
\* and carries, the label set and has the enabled flag that it has when it
\* is registered with no rules active and set_relabel_configs is called
\* with the list afterwards.
C19_RulesApplyToLaterRegistrations ==
    [][(last'.op = "add_metric" /\ last'.err = "none")
          => \A e \in Entries(impls') :
                (e.h = last'.h /\ e.rm.uid \notin LiveUids(impls))
                  => \A m \in RegisteredThenRelabelled(
                                  e.h, last'.def, impls[e.h].relabel_configs) :
                        /\ e.rm.info.id.labels = m.info.id.labels
                        /\ e.key = m.info.id.labels
                        /\ e.rm.info.enabled = m.info.enabled]_vars

\* A metric was registered that the active rules gave another label set
\* and disabled.
C19_Witness ==
    /\ last.op = "add_metric"
    /\ last.err = "none"
    /\ \E m \in AllMetrics(impls) :
          /\ m.impl = last.h
          /\ m.f = last.def.md.f
          /\ m.info.original_labels = last.def.md.labels
          /\ m.info.id.labels # m.info.original_labels
          /\ ~m.info.enabled
    /\ Cardinality(RegisteredThenRelabelled(
                      last.h, last.def, impls[last.h].relabel_configs)) = 1

\* s without '+', '(' and ')', and in what is left every hyphen and every
\* space an underscore.
Cleaned(s) ==
    With(SelectSeq(s, LAMBDA c : c \notin {"+", "(", ")"}),
         LAMBDA kept :
            [i \in 1..Len(kept) |->
                IF kept[i] \in {"-", " "} THEN "_" ELSE kept[i]])

\* C20: full_name(group, name) is group + "_" + name with every hyphen and
\* every space replaced by an underscore and every '+', '(' and ')'
\* removed; full_name("cpu", "busy-ms") is "cpu_busy_ms" and
\* full_name("io", "ops check+()") is "io_ops_check".
C20_FullName ==
    last.op = "full_name"
      => /\ last.ret = Cleaned(last.def.group \o <<"_">> \o last.def.name)
         /\ (last.def.group = <<"c","p","u">>
                /\ last.def.name = <<"b","u","s","y","-","m","s">>)
              => last.ret = <<"c","p","u","_","b","u","s","y","_","m","s">>
         /\ (last.def.group = <<"i","o">>
                /\ last.def.name = <<"o","p","s"," ","c","h","e","c","k","+","(",")">>)
              => last.ret = <<"i","o","_","o","p","s","_","c","h","e","c","k">>

\* full_name("io", "ops check+()") was computed.
C20_Witness ==
    /\ last.op = "full_name"
    /\ last.def = [group |-> <<"i","o">>,
                   name |-> <<"o","p","s"," ","c","h","e","c","k","+","(",")">>]
    /\ last.ret = <<"i","o","_","o","p","s","_","c","h","e","c","k">>

\* The upper bounds of a histogram's buckets, in order.
BoundsOf(h) == [i \in DOMAIN h.buckets |-> h.buckets[i].upper_bound]

\* C21: a += c for histograms with identical sequences of upper bounds
\* succeeds and leaves in a the same bounds, in every bucket the sum of the
\* two counts, and the sums of the sample_counts and of the sample_sums;
\* a += c for a c whose sample_count is 0 leaves a unchanged.
C21_MergeSums ==
    last.op = "histogram_add"
      => /\ BoundsOf(last.def.this) = BoundsOf(last.def.c)
              => /\ last.err = "none"
                 /\ BoundsOf(last.ret) = BoundsOf(last.def.this)
                 /\ \A i \in DOMAIN last.ret.buckets :
                       last.ret.buckets[i].count
                          = last.def.this.buckets[i].count
                              + last.def.c.buckets[i].count
                 /\ last.ret.sample_count
                       = last.def.this.sample_count + last.def.c.sample_count
                 /\ last.ret.sample_sum
                       = last.def.this.sample_sum + last.def.c.sample_sum
         /\ last.def.c.sample_count = 0
              => (last.err = "none" /\ last.ret = last.def.this)

\* Two histograms with samples in the same two buckets were merged.
C21_Witness ==
    /\ last.op = "histogram_add"
    /\ last.err = "none"
    /\ Len(last.def.this.buckets) = 2
    /\ BoundsOf(last.def.this) = BoundsOf(last.def.c)
    /\ last.def.this.buckets[2].count > 0
    /\ last.def.c.buckets[2].count > 0
    /\ last.ret.buckets[2].count = 2
    /\ last.ret.sample_sum = 14

\* The bounds of a and c differ at an index both have.
BoundsDiffer(a, c) ==
    \E i \in DOMAIN a.buckets \cap DOMAIN c.buckets :
        a.buckets[i].upper_bound # c.buckets[i].upper_bound

\* C22 as the specification states it: a += c for histograms with samples
\* whose sequences of upper bounds are not identical, by a bound or by
\* their length, fails (std::out_of_range).
C22_MismatchFails ==
    (/\ last.op = "histogram_add"
     /\ last.def.this.sample_count # 0
     /\ last.def.c.sample_count # 0
     /\ BoundsOf(last.def.this) # BoundsOf(last.def.c))
      => last.err = "out_of_range"

\* C22: a += c for histograms with samples fails (std::out_of_range) when
\* and only when a bound differs at an index both have, and then a keeps
\* its bounds and its sample_count and sample_sum.  When only the lengths
\* differ the merge succeeds: a has the buckets of the longer sequence,
\* the counts summed where both have a bucket, and the summed sample_count
\* and sample_sum.
C22_MismatchAtCommonIndexFails ==
    (/\ last.op = "histogram_add"
     /\ last.def.this.sample_count # 0
     /\ last.def.c.sample_count # 0)
      => With(last.def.this,
              LAMBDA a :
                With(last.def.c,
                     LAMBDA c :
                        IF BoundsDiffer(a, c)
                        THEN /\ last.err = "out_of_range"
                             /\ BoundsOf(last.ret) = BoundsOf(a)
                             /\ last.ret.sample_count = a.sample_count
                             /\ last.ret.sample_sum = a.sample_sum
                        ELSE /\ last.err = "none"
                             /\ BoundsOf(last.ret)
                                   = (IF Len(a.buckets) >= Len(c.buckets)
                                      THEN BoundsOf(a) ELSE BoundsOf(c))
                             /\ \A i \in DOMAIN last.ret.buckets :
                                   last.ret.buckets[i].count
                                      = (IF i \in DOMAIN a.buckets
                                         THEN a.buckets[i].count ELSE 0)
                                        + (IF i \in DOMAIN c.buckets
                                           THEN c.buckets[i].count ELSE 0)
                             /\ last.ret.sample_count
                                   = a.sample_count + c.sample_count
                             /\ last.ret.sample_sum
                                   = a.sample_sum + c.sample_sum))

\* A histogram with one bucket was merged with one that has a second
\* bucket, and the merge succeeded.
C22_Witness ==
    /\ last.op = "histogram_add"
    /\ last.err = "none"
    /\ last.def.c.sample_count # 0
    /\ last.def.this.sample_count # 0
    /\ Len(last.def.this.buckets) = 1
    /\ Len(last.def.c.buckets) = 2
    /\ Len(last.ret.buckets) = 2

\* What a rebuild of the snapshot of registry h from its live families
\* produces: the metadata mt and the function list cm.
FreshSnapshot(im, h) ==
    RebuildFamilies(im[h].value_map, NamesInOrder(DOMAIN im[h].value_map), 1,
                    <<>>, Resize(<<>>, Cardinality(DOMAIN im[h].value_map)), 0)

\* C23: whenever _dirty of a registry is false, its cached snapshot is the
\* one a rebuild from its live families produces: the same families and
\* members with the same label sets, enabled and skip-when-empty flags,
\* and the same functions.
C23_CacheCoherent ==
    \A h \in Handles :
        ~impls[h].dirty
          => /\ impls[h].metadata \in DOMAIN heap
             /\ heap[impls[h].metadata] = FreshSnapshot(impls, h).mt
             /\ impls[h].current_metrics = FreshSnapshot(impls, h).cm

\* The metric lacks a source label of the rule other than __name__.
LacksSourceLabel(rc, info) ==
    \E i \in DOMAIN rc.source_labels :
        /\ rc.source_labels[i] # NameLabel
        /\ rc.source_labels[i] \notin DOMAIN info.id.labels

\* The strings vals joined by sep.
RECURSIVE Join(_, _)
Join(vals, sep) ==
    IF Len(vals) = 0 THEN <<>>
    ELSE IF Len(vals) = 1 THEN vals[1]
    ELSE vals[1] \o sep \o Join(Tail(vals), sep)

\* The values of the rule's source labels, joined by its separator, for a
\* metric that has them all.
SourceValues(rc, info) ==
    Join([i \in DOMAIN rc.source_labels |->
            IF rc.source_labels[i] = NameLabel THEN full_name(info.id)
            ELSE info.id.labels[rc.source_labels[i]]],
         rc.separator)

\* String s contains e.
Contains(s, e) ==
    \E i \in 1..(Len(s) + 1) :
        i + Len(e) - 1 <= Len(s) /\ SubSeq(s, i, i + Len(e) - 1) = e

\* The rule matches the metric.
Matches(rc, info) ==
    /\ ~LacksSourceLabel(rc, info)
    /\ Contains(SourceValues(rc, info), rc.expr)

\* C24: apply_relabeling on a metric that lacks a source label of the rule
\* other than __name__, or whose joined source values contain no match of
\* the rule's expression, returns false and leaves the metric's label set,
\* enabled flag and skip flag as they were.
C24_NoMatchNoChange ==
    (last.op = "apply_relabeling" /\ ~Matches(last.def.rc, last.def.info))
      => /\ last.ret.changed = FALSE
         /\ last.ret.info = last.def.info

\* A rule whose expression occurs in the metric's name was applied to a
\* metric that lacks another source label of the rule.
C24_Witness ==
    /\ last.op = "apply_relabeling"
    /\ LacksSourceLabel(last.def.rc, last.def.info)
    /\ \E i \in DOMAIN last.def.rc.source_labels :
          last.def.rc.source_labels[i] = NameLabel
    /\ Contains(full_name(last.def.info.id), last.def.rc.expr)
    /\ last.ret.changed = FALSE

\* The info of a metric after the first n rules of a pass.
RECURSIVE InfoAfter(_, _, _)
InfoAfter(rules, info, n) ==
    IF n = 0 THEN info
    ELSE apply_relabeling(rules[n], InfoAfter(rules, info, n - 1)).info

\* The keep and drop rules of the pass that match the metric when their
\* turn comes.
Deciders(rules, info) ==
    {i \in DOMAIN rules :
        /\ rules[i].action \in {"keep", "drop"}
        /\ Matches(rules[i], InfoAfter(rules, info, i - 1))}

\* The greatest number of a non-empty set.
Max(S) == CHOOSE x \in S : \A y \in S : y <= x

\* C25: a pass applies the rules in list order, each to the info the rules
\* before it left; the enabled flag after the pass is what the last keep
\* or drop rule that matched decides (keep enables, drop disables) and is
\* unchanged when none matched; after [drop every name, keep level 1] the
\* metric is enabled exactly when its level label is 1.
C25_ListOrder ==
    last.op = "relabel_pass"
      => /\ last.ret.info = InfoAfter(last.rules, last.def.info, Len(last.rules))
         /\ last.ret.info.enabled
              = (IF Deciders(last.rules, last.def.info) = {}
                 THEN last.def.info.enabled
                 ELSE last.rules[Max(Deciders(last.rules, last.def.info))].action
                        = "keep")
         /\ last.rules = <<DropEvery, KeepLevel1>>
              => last.ret.info.enabled
                    = (/\ HasLabel(last.def.info.id.labels, LevelLabel)
                       /\ last.def.info.id.labels[LevelLabel] = <<"1">>)

\* A disabled metric was enabled by a keep rule that matched only because
\* of the label the rule before it had written.
C25_Witness ==
    /\ last.op = "relabel_pass"
    /\ Len(last.rules) = 2
    /\ last.rules[2].action = "keep"
    /\ ~Matches(last.rules[2], last.def.info)
    /\ Matches(last.rules[2], InfoAfter(last.rules, last.def.info, 1))
    /\ ~last.def.info.enabled
    /\ last.ret.info.enabled

FamiliesOf(im, h) == DOMAIN im[h].value_map

\* Every family of every registry has a member.
NoEmptyFamily(im) ==
    \A h \in DOMAIN im : \A n \in FamiliesOf(im, h) :
        DOMAIN im[h].value_map[n].instances # {}

\* C27: every family of a registry has at least one member; a family
\* appears only in a step that registers (a registration or the copying of
\* replicas), a registration that returns leaves the family of its full
\* name in the registry, and a family disappears only in a step that
\* removes registrations, which leaves no family without members behind.
C27_NoEmptyFamily ==
    [][/\ NoEmptyFamily(impls) /\ NoEmptyFamily(impls')
       /\ \A h \in Handles :
            /\ FamiliesOf(impls', h) \ FamiliesOf(impls, h) # {}
                  => last'.op \in {"add_metric", "replicate_metric_families"}
            /\ FamiliesOf(impls, h) \ FamiliesOf(impls', h) # {}
                  => last'.op \in {"clear", "unregister_metric",
                                   "replicate_metric_families"}
       /\ (last'.op = "add_metric" /\ last'.err = "none")
            => FamilyOf(last'.def) \in FamiliesOf(impls', last'.h)]_vars

\* The identity a scoped handle registered in the registry was removed by
\* unregister_metric, and its family, of which it was the only member, is
\* gone.
C27_Witness ==
    /\ last.op = "unregister_metric"
    /\ last.err = "none"
    /\ steps = 2
    /\ \E g \in Groups :
          /\ groups[g].handle = last.h
          /\ groups[g].registration
                = <<metric_id(last.def.group, last.def.md.name, last.def.md.labels)>>
    /\ FamilyOf(last.def) \notin FamiliesOf(impls, last.h)

\* The families the step's registration or removals on the source name.
TouchedFamilies ==
    CASE last'.op \in {"add_metric", "unregister_metric"} -> {FamilyOf(last'.def)}
      [] last'.op = "clear" ->
            {full_name(groups[last'.g].registration[i]) :
                i \in DOMAIN groups[last'.g].registration}
      [] OTHER -> {}

\* The replication mappings of the registries.
MappingsOf(im) == [h \in DOMAIN im |-> im[h].metric_families_to_replicate]

\* C28: the mapping in effect on a registry is the one the last
\* set_metric_families_to_replicate that returned was called with, and no
\* other operation changes it; a registration that returns and creates
\* family F on a source whose mapping, installed when F did not exist,
\* holds (F -> H) registers a replica in H; and a registration or removal
\* on the source under families that the mapping in effect does not map to
\* H leaves registry H as it was, whatever mapping was in effect before.
C28_CurrentMappingOnly ==
    [][/\ IsReplicate => impls'[last'.h].metric_families_to_replicate = last'.mapping
       /\ last'.op # "replicate_metric_families"
            => MappingsOf(impls') = MappingsOf(impls)
       /\ (last'.op = "add_metric" /\ last'.err = "none"
             /\ FamilyOf(last'.def) \notin FamiliesOf(impls, last'.h))
            => \A H \in Handles :
                  Replicates(impls, last'.h, FamilyOf(last'.def), H)
                    => \E s \in MembersOf(impls', last'.h, FamilyOf(last'.def)) :
                          ReplicasOf(impls', last'.h, s.rm.uid, H) # {}
       /\ last'.op \in {"add_metric", "unregister_metric", "clear"}
            => \A H \in Handles \ {last'.h} :
                  (\A F \in TouchedFamilies : ~Replicates(impls, last'.h, F, H))
                    => impls'[H] = impls[H]]_vars

\* The mapping was installed in the first step, when the source had no
\* family, and the registration of the second step created the family and
\* its replica.
C28_Witness ==
    /\ last.op = "add_metric"
    /\ last.err = "none"
    /\ steps = 2
    /\ Replicates(impls, last.h, FamilyOf(last.def), 1)
    /\ last.h # 1
    /\ \E s \in MembersOf(impls, last.h, FamilyOf(last.def)) :
          ReplicasOf(impls, last.h, s.rm.uid, 1) # {}

\* C29: the original label set of a registered metric is the label set it
\* was registered with and no step changes it: not set_relabel_configs,
\* with or without a collision, not replication and not the removal of
\* other metrics.  (A set_metric_families_to_replicate removes the
\* source's replicas and registers new ones; the metrics it leaves in
\* place are compared.)
C29_OriginalLabelsFixed ==
    [][/\ \A e \in Entries(impls) : \A f \in Entries(impls') :
            (/\ f.rm.uid = e.rm.uid
             /\ f.rm.reg = e.rm.reg
             /\ ~(last'.op = "replicate_metric_families"
                    /\ e.rm.reg.src.handle = last'.h))
              => f.rm.info.original_labels = e.rm.info.original_labels
       /\ \A f \in Entries(impls') :
            f.rm.reg.src = NoSource
              => f.rm.info.original_labels = Def(f.rm.f).md.labels]_vars

\* After a set_relabel_configs a metric that collided carries an err label
\* and another level than it was registered with, its original labels are
\* those of its definition, and the other registry holds a replica.
C29_Witness ==
    /\ last.op = "set_relabel_configs"
    /\ \E e \in Entries(impls) :
          /\ e.h = last.h
          /\ e.rm.reg.src = NoSource
          /\ HasLabel(e.rm.info.id.labels, ErrLabel)
          /\ e.rm.info.id.labels[LevelLabel] # e.rm.info.original_labels[LevelLabel]
          /\ e.rm.info.original_labels = Def(e.rm.f).md.labels
    /\ \E r \in Entries(impls) : r.rm.reg.src # NoSource

\* C30: every add_registration and remove_registration returns or throws,
\* whatever mappings replicate_metric_families installed: no call recurses
\* without end.
C30_Terminates == ~crashed /\ last.err # "stack_overflow"

\* C31: in every reachable state every entry of every family is keyed by
\* the current label set of the metric it holds, its err label included.
C31_KeyedByCurrentLabels ==
    \A e \in Entries(impls) : e.key = e.rm.info.id.labels

\* A metric that collided is stored under a key with an err label, next to
\* a metric whose key is not its original label set.
C31_Witness ==
    /\ \E e \in Entries(impls) :
          /\ HasLabel(e.key, ErrLabel)
          /\ ~HasLabel(e.rm.info.original_labels, ErrLabel)
          /\ e.rm.info.id.labels[ErrLabel] = e.key[ErrLabel]
    /\ \E e \in Entries(impls) :
          /\ ~HasLabel(e.key, ErrLabel)
          /\ e.key # e.rm.info.original_labels

\* The number of members of every family of registry h.
MemberCounts(im, h) ==
    [n \in FamiliesOf(im, h) |-> Cardinality(DOMAIN im[h].value_map[n].instances)]

\* The family every metric of registry h is a member of, by identity.
FamilyByUid(im, h) ==
    {<<e.rm.uid, e.name>> : e \in {x \in Entries(im) : x.h = h}}

\* C32: set_relabel_configs raises no error and leaves the families of the
\* registry, the number of members of each and the family of every metric
\* as they were; every metric's full name is the name of its family.
C32_RelabelKeepsFamilies ==
    [][last'.op = "set_relabel_configs"
          => /\ last'.err = "none"
             /\ MemberCounts(impls', last'.h) = MemberCounts(impls, last'.h)
             /\ FamilyByUid(impls', last'.h) = FamilyByUid(impls, last'.h)
             /\ \A e \in Entries(impls') :
                   e.h = last'.h => full_name(e.rm.info.id) = e.name
             /\ \A h \in Handles \ {last'.h} : impls'[h] = impls[h]]_vars

\* A call with rules left a family of three members, of which one was
\* given another label set and one an err label.
C32_Witness ==
    /\ last.op = "set_relabel_configs"
    /\ last.rules # <<>>
    /\ \E n \in FamiliesOf(impls, last.h) :
          /\ Cardinality(MembersOf(impls, last.h, n)) = 3
          /\ \E e \in MembersOf(impls, last.h, n) : HasLabel(e.key, ErrLabel)
          /\ \E e \in MembersOf(impls, last.h, n) :
                ~HasLabel(e.key, ErrLabel) /\ e.key # e.rm.info.original_labels

\* C33: a removal, the teardown of a scoped handle or a
\* set_metric_families_to_replicate on a registry removes from no other
\* registry a series that was registered directly there.
C33_OwnSeriesKept ==
    [][last'.op \in {"clear", "unregister_metric", "replicate_metric_families"}
          => \A e \in Entries(impls) :
                (e.h # last'.h /\ e.rm.reg.src = NoSource)
                  => \E f \in Entries(impls') :
                        /\ f.h = e.h
                        /\ f.rm.uid = e.rm.uid
                        /\ f.rm.reg.src = NoSource]_vars

=============================================================================
